---- MODULE Spec2Model ----
(***************************************************************************)
(* State-machine model of the SDN load-balancing control core:             *)
(*   controller/ryu_utils.py    ServerMetrics, LoadBalancer                 *)
(*   controller/ryu_lb_basic.py SDNLoadBalancer (switch / packet handlers)  *)
(*                                                                         *)
(* Python floats are modelled as exact rationals [n, d] in lowest terms    *)
(* (d > 0), so 1.0 / latency and the cpu/memory weight formula are         *)
(* computed, not assumed.  A Python dict is modelled as the sequence of    *)
(* its items [k, v] in insertion order.                                    *)
(***************************************************************************)
EXTENDS Integers, Sequences, FiniteSets, TLC

(***************************************************************************)
(* Bounds of the model                                                     *)
(***************************************************************************)
\* longest backend list handed to the constructor
MaxServers == 3
\* round_robin_index is an unbounded Python int; selections stop at this value
MaxCursor == 2
\* total_requests / request_counts are unbounded; at most this many requests
\* are recorded for known backends
MaxRequests == 1

(***************************************************************************)
(* Float arithmetic (exact rationals)                                      *)
(***************************************************************************)
RECURSIVE GCD(_, _)
GCD(a, b) == IF b = 0 THEN a ELSE GCD(b, a % b)

Abs(n) == IF n < 0 THEN -n ELSE n

\* the rational n/d (d # 0) in lowest terms with a positive denominator
Rat(n, d) ==
  LET s == IF d < 0 THEN -1 ELSE 1
      g == GCD(Abs(n), Abs(d))
  IN  [n |-> (s * n) \div g, d |-> (s * d) \div g]

RatAdd(a, b) == Rat(a.n * b.d + b.n * a.d, a.d * b.d)
RatSub(a, b) == Rat(a.n * b.d - b.n * a.d, a.d * b.d)
RatDiv(a, b) == Rat(a.n * b.d, a.d * b.n)
RatLess(a, b) == a.n * b.d < b.n * a.d
RatLeq(a, b) == a.n * b.d <= b.n * a.d
RatMax(a, b) == IF RatLess(a, b) THEN b ELSE a

Zero == Rat(0, 1)
One == Rat(1, 1)

(***************************************************************************)
(* Python dict: items in insertion order                                   *)
(***************************************************************************)
DictKeys(d) == [i \in 1..Len(d) |-> d[i].k]
DictKeySet(d) == {d[i].k : i \in 1..Len(d)}
DictHas(d, key) == key \in DictKeySet(d)
DictIndex(d, key) == CHOOSE i \in 1..Len(d) : d[i].k = key
DictGet(d, key) == d[DictIndex(d, key)].v
\* a store that moves a key already present to the end (not what a dict does)
DictPutMoveToEnd(d, key, val) ==
  SelectSeq(d, LAMBDA e : e.k # key) \o <<[k |-> key, v |-> val]>>

\* d[key] = val: an existing key keeps its position, a new key is appended
DictPut(d, key, val) ==
  IF DictHas(d, key)
  THEN [d EXCEPT ![DictIndex(d, key)] = [k |-> key, v |-> val]]
  ELSE Append(d, [k |-> key, v |-> val])

(***************************************************************************)
(* ryu_utils.py: LoadBalancingAlgorithm, ServerMetrics                     *)
(***************************************************************************)
ROUND_ROBIN == "round_robin"
LEAST_CONNECTIONS == "least_connections"
LATENCY_WEIGHTED == "latency_weighted"
WEIGHTED_ROUND_ROBIN == "weighted_round_robin"
LoadBalancingAlgorithm ==
  {ROUND_ROBIN, LEAST_CONNECTIONS, LATENCY_WEIGHTED, WEIGHTED_ROUND_ROBIN}

\* the dataclass with its field defaults
ServerMetrics(ip, port) ==
  [ip |-> ip, port |-> port, healthy |-> TRUE, last_latency_ms |-> Zero,
   cpu_percent |-> Zero, memory_percent |-> Zero, active_connections |-> 0,
   total_requests |-> 0, last_health_check |-> 0, weight |-> One]

\* f"{ip}:{port}"
FormatServerId(ip, port) == ip \o ":" \o ToString(port)

\* the server_id property of a ServerMetrics object
server_id(s) == FormatServerId(s.ip, s.port)

(***************************************************************************)
(* LoadBalancer.__init__: the two dicts filled from the list of pairs      *)
(***************************************************************************)
RECURSIVE InitServers(_, _)
InitServers(pairs, d) ==
  IF pairs = <<>> THEN d
  ELSE InitServers(Tail(pairs),
         DictPut(d, FormatServerId(Head(pairs)[1], Head(pairs)[2]),
                 ServerMetrics(Head(pairs)[1], Head(pairs)[2])))

RECURSIVE InitRequestCounts(_, _)
InitRequestCounts(pairs, d) ==
  IF pairs = <<>> THEN d
  ELSE InitRequestCounts(Tail(pairs),
         DictPut(d, FormatServerId(Head(pairs)[1], Head(pairs)[2]), 0))

(***************************************************************************)
(* LoadBalancer.select_server and the four policies.  A ServerMetrics      *)
(* object is named by its slot in the servers dict; a policy returns       *)
(* [ret, servers, rr]: the slot chosen (0 for None), the dict after the    *)
(* weight assignments and the cursor after the call.                       *)
(***************************************************************************)
None == 0

\* a snapshot without the "if s.healthy" filter
HealthyFromAll(srv, i) == [j \in 1..(Len(srv) - i + 1) |-> i + j - 1]

\* [s for s in self.servers.values() if s.healthy], from slot i on
RECURSIVE HealthyFrom(_, _)
HealthyFrom(srv, i) ==
  IF i > Len(srv) THEN <<>>
  ELSE (IF srv[i].v.healthy THEN <<i>> ELSE <<>>) \o HealthyFrom(srv, i + 1)

get_healthy_servers(srv) == HealthyFrom(srv, 1)

\* round-robin without "self.round_robin_index += 1"
_round_robin_select_no_advance(srv, rr, hs) ==
  IF hs = <<>> THEN [ret |-> None, servers |-> srv, rr |-> rr]
  ELSE [ret |-> hs[(rr % Len(hs)) + 1], servers |-> srv, rr |-> rr]

_round_robin_select(srv, rr, hs) ==
  IF hs = <<>> THEN [ret |-> None, servers |-> srv, rr |-> rr]
  ELSE [ret |-> hs[(rr % Len(hs)) + 1], servers |-> srv, rr |-> rr + 1]

\* the scan with the comparison reversed: max(servers, key=...)
RECURSIVE MaxConnections(_, _, _, _)
MaxConnections(srv, hs, i, best) ==
  IF i > Len(hs) THEN best
  ELSE MaxConnections(srv, hs, i + 1,
         IF srv[hs[i]].v.active_connections > srv[best].v.active_connections
         THEN hs[i] ELSE best)

\* min(servers, key=...): the scan keeps the first minimal element
RECURSIVE MinConnections(_, _, _, _)
MinConnections(srv, hs, i, best) ==
  IF i > Len(hs) THEN best
  ELSE MinConnections(srv, hs, i + 1,
         IF srv[hs[i]].v.active_connections < srv[best].v.active_connections
         THEN hs[i] ELSE best)

_least_connections_select(srv, rr, hs) ==
  [ret |-> MinConnections(srv, hs, 2, hs[1]), servers |-> srv, rr |-> rr]

\* the scan keeping the last maximal element
RECURSIVE MaxWeightLast(_, _, _, _)
MaxWeightLast(srv, hs, i, best) ==
  IF i > Len(hs) THEN best
  ELSE MaxWeightLast(srv, hs, i + 1,
         IF RatLeq(srv[best].v.weight, srv[hs[i]].v.weight)
         THEN hs[i] ELSE best)

\* max(servers, key=lambda s: s.weight): the scan keeps the first maximal element
RECURSIVE MaxWeight(_, _, _, _)
MaxWeight(srv, hs, i, best) ==
  IF i > Len(hs) THEN best
  ELSE MaxWeight(srv, hs, i + 1,
         IF RatLess(srv[best].v.weight, srv[hs[i]].v.weight)
         THEN hs[i] ELSE best)

RECURSIVE SumWeights(_, _, _)
SumWeights(srv, hs, i) ==
  IF i > Len(hs) THEN Zero
  ELSE RatAdd(srv[hs[i]].v.weight, SumWeights(srv, hs, i + 1))

InSeq(x, seq) == \E i \in 1..Len(seq) : seq[i] = x

\* a weight that grows with the latency instead of its reciprocal
LatencyWeightDirect(s) ==
  IF RatLess(Zero, s.last_latency_ms) THEN s.last_latency_ms ELSE One

\* a backend without a measured latency weighted 0 instead of 1.0
LatencyWeightZeroForUnmeasured(s) ==
  IF RatLess(Zero, s.last_latency_ms) THEN RatDiv(One, s.last_latency_ms)
  ELSE Zero

LatencyWeight(s) ==
  IF RatLess(Zero, s.last_latency_ms) THEN RatDiv(One, s.last_latency_ms)
  ELSE One

\* for server in servers: server.weight = 1.0 / latency, or 1.0
AssignLatencyWeights(srv, hs) ==
  [i \in 1..Len(srv) |->
     IF InSeq(i, hs) THEN [srv[i] EXCEPT !.v.weight = LatencyWeight(srv[i].v)]
     ELSE srv[i]]

_latency_weighted_select(srv, rr, hs) ==
  IF hs = <<>> THEN [ret |-> None, servers |-> srv, rr |-> rr]
  ELSE LET w == AssignLatencyWeights(srv, hs)
       IN  IF SumWeights(w, hs, 1) = Zero
           THEN [ret |-> hs[1], servers |-> w, rr |-> rr]
           ELSE [ret |-> MaxWeight(w, hs, 2, hs[1]), servers |-> w, rr |-> rr]

\* a weight that ignores memory_percent
PerformanceWeightCpuOnly(s) ==
  RatMax(Rat(1, 10), RatSub(One, RatDiv(s.cpu_percent, Rat(100, 1))))

\* the weight without the floor of 0.1 on its two terms
PerformanceWeightNoFloor(s) ==
  RatDiv(RatAdd(RatSub(One, RatDiv(s.cpu_percent, Rat(100, 1))),
                RatSub(One, RatDiv(s.memory_percent, Rat(100, 1)))),
         Rat(2, 1))

PerformanceWeight(s) ==
  LET cpu_weight ==
        RatMax(Rat(1, 10), RatSub(One, RatDiv(s.cpu_percent, Rat(100, 1))))
      memory_weight ==
        RatMax(Rat(1, 10), RatSub(One, RatDiv(s.memory_percent, Rat(100, 1))))
  IN  RatDiv(RatAdd(cpu_weight, memory_weight), Rat(2, 1))

\* the weights assigned over the whole registry instead of the healthy list
AssignPerformanceWeightsAll(srv, hs) ==
  [i \in 1..Len(srv) |->
     [srv[i] EXCEPT !.v.weight = PerformanceWeight(srv[i].v)]]

\* for server in servers: server.weight = (cpu_weight + memory_weight) / 2.0
AssignPerformanceWeights(srv, hs) ==
  [i \in 1..Len(srv) |->
     IF InSeq(i, hs)
     THEN [srv[i] EXCEPT !.v.weight = PerformanceWeight(srv[i].v)]
     ELSE srv[i]]

_weighted_round_robin_select(srv, rr, hs) ==
  LET w == AssignPerformanceWeights(srv, hs)
  IN  [ret |-> MaxWeight(w, hs, 2, hs[1]), servers |-> w, rr |-> rr]

\* select_server advancing the cursor before the "if not healthy_servers" test
select_server_advance_first(srv, alg, rr) ==
  LET healthy_servers == get_healthy_servers(srv)
  IN  IF healthy_servers = <<>>
      THEN [ret |-> None, servers |-> srv, rr |-> rr + 1]
      ELSE CASE alg = ROUND_ROBIN ->
                  _round_robin_select(srv, rr, healthy_servers)
             [] alg = LEAST_CONNECTIONS ->
                  _least_connections_select(srv, rr, healthy_servers)
             [] alg = LATENCY_WEIGHTED ->
                  _latency_weighted_select(srv, rr, healthy_servers)
             [] alg = WEIGHTED_ROUND_ROBIN ->
                  _weighted_round_robin_select(srv, rr, healthy_servers)
             [] OTHER ->
                  [ret |-> healthy_servers[1], servers |-> srv, rr |-> rr]

select_server(srv, alg, rr) ==
  LET healthy_servers == get_healthy_servers(srv)
  IN  IF healthy_servers = <<>>
      THEN [ret |-> None, servers |-> srv, rr |-> rr]
      ELSE CASE alg = ROUND_ROBIN ->
                  _round_robin_select(srv, rr, healthy_servers)
             [] alg = LEAST_CONNECTIONS ->
                  _least_connections_select(srv, rr, healthy_servers)
             [] alg = LATENCY_WEIGHTED ->
                  _latency_weighted_select(srv, rr, healthy_servers)
             [] alg = WEIGHTED_ROUND_ROBIN ->
                  _weighted_round_robin_select(srv, rr, healthy_servers)
             [] OTHER ->
                  [ret |-> healthy_servers[1], servers |-> srv, rr |-> rr]

(***************************************************************************)
(* LoadBalancer.record_request: returns [servers, request_counts]          *)
(***************************************************************************)
DictGetDefault(d, key, default) == IF DictHas(d, key) THEN DictGet(d, key) ELSE default

\* sum(self.request_counts.values()), as get_server_stats computes it
RECURSIVE SumCounts(_, _)
SumCounts(rc, i) == IF i > Len(rc) THEN 0 ELSE rc[i].v + SumCounts(rc, i + 1)

\* record_request without the "if server_id in self.servers" test on the counter
record_request_counting_unknown(srv, rc, sid, latency_ms) ==
  IF DictHas(srv, sid)
  THEN LET i == DictIndex(srv, sid)
       IN  [servers |->
              [srv EXCEPT ![i].v.last_latency_ms = latency_ms,
                          ![i].v.total_requests = @ + 1],
            request_counts |-> DictPut(rc, sid, DictGetDefault(rc, sid, 0) + 1)]
  ELSE [servers |-> srv,
        request_counts |-> DictPut(rc, sid, DictGetDefault(rc, sid, 0) + 1)]

\* record_request registering a descriptor for an id it does not know
record_request_registering(srv, rc, sid, latency_ms) ==
  IF DictHas(srv, sid)
  THEN LET i == DictIndex(srv, sid)
       IN  [servers |->
              [srv EXCEPT ![i].v.last_latency_ms = latency_ms,
                          ![i].v.total_requests = @ + 1],
            request_counts |-> DictPut(rc, sid, DictGetDefault(rc, sid, 0) + 1)]
  ELSE [servers |-> DictPut(srv, sid, ServerMetrics(sid, 0)),
        request_counts |-> rc]

\* record_request taking a served request as proof that the backend is up
record_request_marking_healthy(srv, rc, sid, latency_ms) ==
  IF DictHas(srv, sid)
  THEN LET i == DictIndex(srv, sid)
       IN  [servers |->
              [srv EXCEPT ![i].v.last_latency_ms = latency_ms,
                          ![i].v.total_requests = @ + 1,
                          ![i].v.healthy = TRUE],
            request_counts |-> DictPut(rc, sid, DictGetDefault(rc, sid, 0) + 1)]
  ELSE [servers |-> srv, request_counts |-> rc]

\* record_request without the statement that adds to request_counts
record_request_without_counter(srv, rc, sid, latency_ms) ==
  IF DictHas(srv, sid)
  THEN LET i == DictIndex(srv, sid)
       IN  [servers |->
              [srv EXCEPT ![i].v.last_latency_ms = latency_ms,
                          ![i].v.total_requests = @ + 1],
            request_counts |-> rc]
  ELSE [servers |-> srv, request_counts |-> rc]

record_request(srv, rc, sid, latency_ms) ==
  IF DictHas(srv, sid)
  THEN LET i == DictIndex(srv, sid)
       IN  [servers |->
              [srv EXCEPT ![i].v.last_latency_ms = latency_ms,
                          ![i].v.total_requests = @ + 1],
            request_counts |-> DictPut(rc, sid, DictGetDefault(rc, sid, 0) + 1)]
  ELSE [servers |-> srv, request_counts |-> rc]

(***************************************************************************)
(* LoadBalancer.get_server_stats: the snapshot the management API returns  *)
(***************************************************************************)
\* round(x, digits) for x >= 0, scale = 10^digits; a tie goes to the even digit
RoundTo(x, scale) ==
  LET num == x.n * scale
      q == num \div x.d
      rem == num % x.d
  IN  Rat(IF 2 * rem > x.d \/ (2 * rem = x.d /\ q % 2 = 1) THEN q + 1 ELSE q,
          scale)

get_server_stats(srv, rc, alg) ==
  [algorithm |-> alg,
   servers |->
     [i \in 1..Len(srv) |->
        [server_id |-> srv[i].k, ip |-> srv[i].v.ip, port |-> srv[i].v.port,
         healthy |-> srv[i].v.healthy,
         request_count |-> DictGetDefault(rc, srv[i].k, 0),
         latency_ms |-> RoundTo(srv[i].v.last_latency_ms, 100),
         cpu_percent |-> RoundTo(srv[i].v.cpu_percent, 100),
         memory_percent |-> RoundTo(srv[i].v.memory_percent, 100),
         active_connections |-> srv[i].v.active_connections,
         weight |-> RoundTo(srv[i].v.weight, 1000)]],
   total_requests |-> SumCounts(rc, 1)]

(***************************************************************************)
(* LoadBalancer._check_server_health: the descriptor after one probe.      *)
(* A probe ends in a Response: requests.get raised (raised names the       *)
(* exception, status_code is 0), or it returned status_code with a body    *)
(* that response.json() accepts (json) or rejects.  latency_ms and now are *)
(* the two time.time() readings, metrics the body's "metrics" object after *)
(* the .get defaults.                                                      *)
(***************************************************************************)
Response(raised, status_code, json) ==
  [raised |-> raised, status_code |-> status_code, json |-> json]
NoResponse == Response("", 0, FALSE)

_check_server_health(s, response, latency_ms, now, metrics) ==
  IF response.raised # ""
  THEN [s EXCEPT !.healthy = FALSE]
  ELSE IF response.status_code = 200
  THEN IF response.json
       THEN [s EXCEPT !.healthy = TRUE, !.last_latency_ms = latency_ms,
                      !.last_health_check = now,
                      !.cpu_percent = metrics.cpu_percent,
                      !.memory_percent = metrics.memory_percent]
       \* the three assignments before response.json(), then the except branch
       ELSE [s EXCEPT !.healthy = FALSE, !.last_latency_ms = latency_ms,
                      !.last_health_check = now]
  ELSE [s EXCEPT !.healthy = FALSE]

(***************************************************************************)
(* OpenFlow messages of ryu_lb_basic.py.  A match holds the four fields    *)
(* the controller uses; 0 / "" stand for a field the match leaves out.     *)
(***************************************************************************)
OFPP_CONTROLLER == -3
OFPP_FLOOD == -5
OFP_NO_BUFFER == -1
ETH_TYPE_IP == "IP"
ETH_TYPE_LLDP == "LLDP"
ETH_TYPE_ARP == "ARP"

virtual_ip == "10.0.0.100"

OFPMatch(in_port, eth_type, ipv4_src, ipv4_dst) ==
  [in_port |-> in_port, eth_type |-> eth_type,
   ipv4_src |-> ipv4_src, ipv4_dst |-> ipv4_dst]

OFPActionOutput(port) == [type |-> "OUTPUT", port |-> port, field |-> "", value |-> ""]
OFPActionSetField(field, value) ==
  [type |-> "SET_FIELD", port |-> 0, field |-> field, value |-> value]

\* a packet as the handler sees it: ipv4 is FALSE when no IPv4 header parses
Packet(eth_type, ipv4, src, dst) ==
  [ethertype |-> eth_type, ipv4 |-> ipv4, src |-> src, dst |-> dst]
NoPacket == Packet("", FALSE, "", "")

\* add_flow: the FlowMod sent for (priority, match, actions); buffer_id is None
add_flow(datapath, priority, match, actions) ==
  [type |-> "FlowMod", datapath |-> datapath, buffer_id |-> OFP_NO_BUFFER,
   priority |-> priority, match |-> match, actions |-> actions,
   in_port |-> 0, data |-> NoPacket]

OFPPacketOut(datapath, buffer_id, in_port, actions, data) ==
  [type |-> "PacketOut", datapath |-> datapath, buffer_id |-> buffer_id,
   priority |-> 0, match |-> OFPMatch(0, "", "", ""), actions |-> actions,
   in_port |-> in_port, data |-> data]

\* a default rule that floods instead of sending to the controller
switch_features_handler_flood(datapath) ==
  <<add_flow(datapath, 0, OFPMatch(0, "", "", ""),
             <<OFPActionOutput(OFPP_FLOOD)>>)>>

\* switch_features_handler: the messages sent on a switch connect
switch_features_handler(datapath) ==
  <<add_flow(datapath, 0, OFPMatch(0, "", "", ""),
             <<OFPActionOutput(OFPP_CONTROLLER)>>)>>

\* _install_load_balance_flow whose return rule outputs to the fixed port 1
\* at the default priority
_install_load_balance_flow_fixed_return(datapath, in_port, client_ip, server) ==
  << add_flow(datapath, 10,
              OFPMatch(in_port, ETH_TYPE_IP, client_ip, virtual_ip),
              <<OFPActionSetField("ipv4_dst", server.ip), OFPActionOutput(2)>>),
     add_flow(datapath, 0,
              OFPMatch(2, ETH_TYPE_IP, server.ip, client_ip),
              <<OFPActionSetField("ipv4_src", virtual_ip),
                OFPActionOutput(1)>>) >>

\* _install_load_balance_flow at the priority of the default rule
_install_load_balance_flow_default_priority(datapath, in_port, client_ip, server) ==
  << add_flow(datapath, 0,
              OFPMatch(in_port, ETH_TYPE_IP, client_ip, virtual_ip),
              <<OFPActionSetField("ipv4_dst", server.ip), OFPActionOutput(2)>>),
     add_flow(datapath, 0,
              OFPMatch(2, ETH_TYPE_IP, server.ip, client_ip),
              <<OFPActionSetField("ipv4_src", virtual_ip),
                OFPActionOutput(in_port)>>) >>

\* _install_load_balance_flow: the forward and the return FlowMod
_install_load_balance_flow(datapath, in_port, client_ip, server) ==
  << add_flow(datapath, 10,
              OFPMatch(in_port, ETH_TYPE_IP, client_ip, virtual_ip),
              <<OFPActionSetField("ipv4_dst", server.ip), OFPActionOutput(2)>>),
     add_flow(datapath, 10,
              OFPMatch(2, ETH_TYPE_IP, server.ip, client_ip),
              <<OFPActionSetField("ipv4_src", virtual_ip),
                OFPActionOutput(in_port)>>) >>

\* packet_in_handler with the PacketOut inside the "if server:" branch
packet_in_handler_flood_if_selected(lb, srv, alg, rr, datapath, in_port, buffer_id, pkt) ==
  LET flood == <<OFPPacketOut(datapath, buffer_id, in_port,
                              <<OFPActionOutput(OFPP_FLOOD)>>, pkt)>>
  IN  IF ~lb
      THEN [ret |-> None, servers |-> srv, rr |-> rr, out |-> <<>>]
      ELSE IF pkt.ethertype = ETH_TYPE_LLDP
      THEN [ret |-> None, servers |-> srv, rr |-> rr, out |-> <<>>]
      ELSE IF pkt.ethertype = ETH_TYPE_IP /\ pkt.ipv4 /\ pkt.dst = virtual_ip
      THEN LET sel == select_server(srv, alg, rr)
           IN  [ret |-> sel.ret, servers |-> sel.servers, rr |-> sel.rr,
                out |-> IF sel.ret # None
                        THEN _install_load_balance_flow(
                               datapath, in_port, pkt.src, srv[sel.ret].v)
                             \o flood
                        ELSE <<>>]
      ELSE [ret |-> None, servers |-> srv, rr |-> rr, out |-> flood]

\* packet_in_handler installing rules for the first backend when selection
\* returns none
packet_in_handler_fallback_first(lb, srv, alg, rr, datapath, in_port, buffer_id, pkt) ==
  LET flood == <<OFPPacketOut(datapath, buffer_id, in_port,
                              <<OFPActionOutput(OFPP_FLOOD)>>, pkt)>>
  IN  IF ~lb
      THEN [ret |-> None, servers |-> srv, rr |-> rr, out |-> <<>>]
      ELSE IF pkt.ethertype = ETH_TYPE_LLDP
      THEN [ret |-> None, servers |-> srv, rr |-> rr, out |-> <<>>]
      ELSE IF pkt.ethertype = ETH_TYPE_IP /\ pkt.ipv4 /\ pkt.dst = virtual_ip
      THEN LET sel == select_server(srv, alg, rr)
               slot == IF sel.ret # None THEN sel.ret ELSE 1
           IN  [ret |-> sel.ret, servers |-> sel.servers, rr |-> sel.rr,
                out |-> _install_load_balance_flow(
                          datapath, in_port, pkt.src, srv[slot].v) \o flood]
      ELSE [ret |-> None, servers |-> srv, rr |-> rr, out |-> flood]

\* packet_in_handler without the LLDP test
packet_in_handler_lldp_flooded(lb, srv, alg, rr, datapath, in_port, buffer_id, pkt) ==
  LET flood == <<OFPPacketOut(datapath, buffer_id, in_port,
                              <<OFPActionOutput(OFPP_FLOOD)>>, pkt)>>
  IN  IF ~lb
      THEN [ret |-> None, servers |-> srv, rr |-> rr, out |-> <<>>]
      ELSE IF pkt.ethertype = ETH_TYPE_IP /\ pkt.ipv4 /\ pkt.dst = virtual_ip
      THEN LET sel == select_server(srv, alg, rr)
           IN  [ret |-> sel.ret, servers |-> sel.servers, rr |-> sel.rr,
                out |-> (IF sel.ret # None
                         THEN _install_load_balance_flow(
                                datapath, in_port, pkt.src, srv[sel.ret].v)
                         ELSE <<>>) \o flood]
      ELSE [ret |-> None, servers |-> srv, rr |-> rr, out |-> flood]

\* packet_in_handler counting the routed flow as a connection of the backend
packet_in_handler_counting_connection(lb, srv, alg, rr, datapath, in_port, buffer_id, pkt) ==
  LET flood == <<OFPPacketOut(datapath, buffer_id, in_port,
                              <<OFPActionOutput(OFPP_FLOOD)>>, pkt)>>
  IN  IF ~lb
      THEN [ret |-> None, servers |-> srv, rr |-> rr, out |-> <<>>]
      ELSE IF pkt.ethertype = ETH_TYPE_LLDP
      THEN [ret |-> None, servers |-> srv, rr |-> rr, out |-> <<>>]
      ELSE IF pkt.ethertype = ETH_TYPE_IP /\ pkt.ipv4 /\ pkt.dst = virtual_ip
      THEN LET sel == select_server(srv, alg, rr)
           IN  [ret |-> sel.ret,
                servers |-> (IF sel.ret # None
                             THEN [sel.servers EXCEPT
                                     ![sel.ret].v.active_connections = @ + 1]
                             ELSE sel.servers),
                rr |-> sel.rr,
                out |-> (IF sel.ret # None
                         THEN _install_load_balance_flow(
                                datapath, in_port, pkt.src, srv[sel.ret].v)
                         ELSE <<>>) \o flood]
      ELSE [ret |-> None, servers |-> srv, rr |-> rr, out |-> flood]

\* packet_in_handler flooding the packet before it installs the rules
packet_in_handler_flood_first(lb, srv, alg, rr, datapath, in_port, buffer_id, pkt) ==
  LET flood == <<OFPPacketOut(datapath, buffer_id, in_port,
                              <<OFPActionOutput(OFPP_FLOOD)>>, pkt)>>
  IN  IF ~lb
      THEN [ret |-> None, servers |-> srv, rr |-> rr, out |-> <<>>]
      ELSE IF pkt.ethertype = ETH_TYPE_LLDP
      THEN [ret |-> None, servers |-> srv, rr |-> rr, out |-> <<>>]
      ELSE IF pkt.ethertype = ETH_TYPE_IP /\ pkt.ipv4 /\ pkt.dst = virtual_ip
      THEN LET sel == select_server(srv, alg, rr)
           IN  [ret |-> sel.ret, servers |-> sel.servers, rr |-> sel.rr,
                out |-> flood \o
                        (IF sel.ret # None
                         THEN _install_load_balance_flow(
                                datapath, in_port, pkt.src, srv[sel.ret].v)
                         ELSE <<>>)]
      ELSE [ret |-> None, servers |-> srv, rr |-> rr, out |-> flood]

\* packet_in_handler balancing every IPv4 packet, whatever its destination
packet_in_handler_any_destination(lb, srv, alg, rr, datapath, in_port, buffer_id, pkt) ==
  LET flood == <<OFPPacketOut(datapath, buffer_id, in_port,
                              <<OFPActionOutput(OFPP_FLOOD)>>, pkt)>>
  IN  IF ~lb
      THEN [ret |-> None, servers |-> srv, rr |-> rr, out |-> <<>>]
      ELSE IF pkt.ethertype = ETH_TYPE_LLDP
      THEN [ret |-> None, servers |-> srv, rr |-> rr, out |-> <<>>]
      ELSE IF pkt.ethertype = ETH_TYPE_IP /\ pkt.ipv4
      THEN LET sel == select_server(srv, alg, rr)
           IN  [ret |-> sel.ret, servers |-> sel.servers, rr |-> sel.rr,
                out |-> (IF sel.ret # None
                         THEN _install_load_balance_flow(
                                datapath, in_port, pkt.src, srv[sel.ret].v)
                         ELSE <<>>) \o flood]
      ELSE [ret |-> None, servers |-> srv, rr |-> rr, out |-> flood]

\* packet_in_handler: [ret, servers, rr, out] for one PacketIn event;
\* ret is the slot select_server returned, None when it was not called
packet_in_handler(lb, srv, alg, rr, datapath, in_port, buffer_id, pkt) ==
  LET flood == <<OFPPacketOut(datapath, buffer_id, in_port,
                              <<OFPActionOutput(OFPP_FLOOD)>>, pkt)>>
  IN  IF ~lb
      THEN [ret |-> None, servers |-> srv, rr |-> rr, out |-> <<>>]
      ELSE IF pkt.ethertype = ETH_TYPE_LLDP
      THEN [ret |-> None, servers |-> srv, rr |-> rr, out |-> <<>>]
      ELSE IF pkt.ethertype = ETH_TYPE_IP /\ pkt.ipv4 /\ pkt.dst = virtual_ip
      THEN LET sel == select_server(srv, alg, rr)
           IN  [ret |-> sel.ret, servers |-> sel.servers, rr |-> sel.rr,
                out |-> (IF sel.ret # None
                         THEN _install_load_balance_flow(
                                datapath, in_port, pkt.src, srv[sel.ret].v)
                         ELSE <<>>) \o flood]
      ELSE [ret |-> None, servers |-> srv, rr |-> rr, out |-> flood]

(***************************************************************************)
(* SDNLoadBalancer._parse_servers.  BACKEND_SERVERS is given as the list   *)
(* servers_env.split(',') yields, each element as the list of parts its    *)
(* strip().split(':') yields; the empty list stands for a variable that is *)
(* unset or empty.                                                         *)
(***************************************************************************)
\* int(port): decimal digits, leading zeros and blanks allowed
int(str) ==
  CASE str = "5001" -> [ok |-> TRUE, value |-> 5001]
    [] str = "05001" -> [ok |-> TRUE, value |-> 5001]
    [] str = " 5002" -> [ok |-> TRUE, value |-> 5002]
    [] OTHER -> [ok |-> FALSE, value |-> 0]

\* the for loop: "ip, port = ..." and int(port) raise ValueError, and the
\* entry is skipped
RECURSIVE ParseEntries(_, _)
ParseEntries(entries, i) ==
  IF i > Len(entries) THEN <<>>
  ELSE (IF Len(entries[i]) = 2 /\ int(entries[i][2]).ok
        THEN <<<<entries[i][1], int(entries[i][2]).value>>>>
        ELSE <<>>) \o ParseEntries(entries, i + 1)

\* _parse_servers falling back to the development default when no entry parses
_parse_servers_defaulting(entries) ==
  IF entries = <<>> \/ ParseEntries(entries, 1) = <<>>
  THEN <<<<"127.0.0.1", 5001>>, <<"127.0.0.1", 5002>>>>
  ELSE ParseEntries(entries, 1)

_parse_servers(entries) ==
  IF entries = <<>>
  THEN <<<<"127.0.0.1", 5001>>, <<"127.0.0.1", 5002>>>>
  ELSE ParseEntries(entries, 1)

\* the text of BACKEND_SERVERS
RECURSIVE JoinParts(_, _)
JoinParts(parts, i) ==
  IF i > Len(parts) THEN ""
  ELSE (IF i > 1 THEN ":" ELSE "") \o parts[i] \o JoinParts(parts, i + 1)

RECURSIVE JoinEntries(_, _)
JoinEntries(entries, i) ==
  IF i > Len(entries) THEN ""
  ELSE (IF i > 1 THEN "," ELSE "") \o JoinParts(entries[i], 1)
         \o JoinEntries(entries, i + 1)

(***************************************************************************)
(* POST /api/algorithm: manage_algorithm of the management API.  A request *)
(* body is not JSON, the JSON null, or an object with or without the key   *)
(* "algorithm"; the result is [status, algorithm]: the HTTP status and     *)
(* current_algorithm after the request.                                    *)
(***************************************************************************)
Body(kind, has, algorithm) == [kind |-> kind, has |-> has, algorithm |-> algorithm]

\* an unknown name selecting the default policy instead of being refused
manage_algorithm_defaulting(lb, alg, body) ==
  IF ~lb THEN [status |-> 500, algorithm |-> alg]
  ELSE IF body.kind = "not_json" THEN [status |-> 400, algorithm |-> alg]
  ELSE IF body.kind = "null" THEN [status |-> 500, algorithm |-> alg]
  ELSE IF body.has /\ body.algorithm \in LoadBalancingAlgorithm
  THEN [status |-> 200, algorithm |-> body.algorithm]
  ELSE [status |-> 200, algorithm |-> ROUND_ROBIN]

manage_algorithm(lb, alg, body) ==
  IF ~lb THEN [status |-> 500, algorithm |-> alg]
  \* request.get_json() refuses the body
  ELSE IF body.kind = "not_json" THEN [status |-> 400, algorithm |-> alg]
  \* data is None: data.get raises AttributeError, which nothing catches
  ELSE IF body.kind = "null" THEN [status |-> 500, algorithm |-> alg]
  \* LoadBalancingAlgorithm(algorithm_name) finds the member with that value
  ELSE IF body.has /\ body.algorithm \in LoadBalancingAlgorithm
  THEN [status |-> 200, algorithm |-> body.algorithm]
  \* ValueError, for None as for an unknown value
  ELSE [status |-> 400, algorithm |-> alg]

(***************************************************************************)
(* State                                                                   *)
(***************************************************************************)
VARIABLES
  config,             \* the list of (ip, port) pairs _parse_servers returned
  load_balancer,      \* FALSE when self.load_balancer is None
  servers,            \* LoadBalancer.servers
  request_counts,     \* LoadBalancer.request_counts
  current_algorithm,  \* LoadBalancer.current_algorithm
  round_robin_index,  \* LoadBalancer.round_robin_index
  monitor_i,          \* _health_monitor: slot the for loop checks next
  last,               \* the operation completed last: name, argument, packet,
                      \* value returned by select_server, messages sent
  selections,         \* server ids returned by the direct select_server calls
  flow_table,         \* per switch, the flow entries the FlowMods sent to it left
  probe,              \* _check_server_health: the statement the monitor thread
                      \* is at, the response it holds and the descriptor as the
                      \* probe found it
  call                \* select_server: the statement a dispatcher call is at,
                      \* its healthy_servers list, the registry as it was when
                      \* the list was built and the policies active since

vars == <<config, load_balancer, servers, request_counts, current_algorithm,
          round_robin_index, monitor_i, last, selections, flow_table, probe,
          call>>

Op(name, arg, pkt, ret, out) ==
  [op |-> name, arg |-> arg, pkt |-> pkt, ret |-> ret, out |-> out,
   response |-> NoResponse, datapath |-> 0, in_port |-> 0]
\* a handled OpenFlow event: the switch and port it came from
EventOp(name, datapath, in_port, pkt, ret, out) ==
  [Op(name, "", pkt, ret, out) EXCEPT !.datapath = datapath,
                                      !.in_port = in_port]
\* a completed probe of the backend sid and the response it ended in
ProbeOp(sid, response) ==
  [Op("check_server_health", sid, NoPacket, None, <<>>)
     EXCEPT !.response = response]

(***************************************************************************)
(* Inputs                                                                  *)
(***************************************************************************)
\* the backends of the test fixture and of the development default
BackendAt(i) == <<"127.0.0.1", 5000 + i>>

\* every list of at most MaxServers pairs over three backends, repetitions
\* included
Configs == UNION {[1..n -> {BackendAt(1), BackendAt(2), BackendAt(3)}] :
                    n \in 0..MaxServers}
\* the lists the controller runs with: no usable entry, one backend, and the
\* development default of two backends on one host
ControllerConfigs == {<<>>, <<BackendAt(1)>>, <<BackendAt(1), BackendAt(2)>>}

\* latencies a probe measures / record_request is handed (ms)
ProbeLatencies == {Rat(2, 1)}
RecordLatencies == {Rat(1, 2)}
\* the (cpu_percent, memory_percent) a health body reports
ProbeMetrics == {[cpu_percent |-> Rat(95, 1), memory_percent |-> Rat(4, 1)]}
\* readings of time.time()
TimeValues == {1}
\* what a probe can end in: a timeout, a refused connection, 200 with a JSON
\* body, 200 with a body that is not JSON, another 2xx status, a 5xx status
Responses ==
  {Response("Timeout", 0, FALSE), Response("ConnectionError", 0, FALSE),
   Response("", 200, TRUE), Response("", 200, FALSE),
   Response("", 204, TRUE), Response("", 503, TRUE)}
\* the responses with different effects on a descriptor
ProbeOutcomes ==
  {Response("Timeout", 0, FALSE), Response("", 200, TRUE),
   Response("", 200, FALSE), Response("", 503, TRUE)}
\* ids handed to record_request: the configured ones and a foreign one
RequestIds ==
  {FormatServerId(BackendAt(i)[1], BackendAt(i)[2]) : i \in 1..2}
  \cup {"10.9.9.9:1"}

Datapaths == {1}
InPorts == {1}
\* the switches that can connect and the ports packets come in on: a
\* client-facing port and the backend-facing port 2
SwitchIds == {1, 2}
IngressPorts == {1, 2}
\* no probe in flight
NoProbe ==
  [pc |-> "idle", response |-> NoResponse, latency_ms |-> Zero, now |-> 0,
   metrics |-> [cpu_percent |-> Zero, memory_percent |-> Zero],
   before |-> ServerMetrics("", 0)]
\* no select_server call in progress
NoCall == [pc |-> "idle", healthy_servers |-> <<>>, view |-> <<>>, seen |-> {}]
\* bodies posted to /api/algorithm: the four values of the enumeration, a
\* member's name instead of its value, an unknown name, the empty string, an
\* object without the key, the JSON null and a body that is not JSON
AdminBodies ==
  {Body("object", TRUE, a) :
     a \in LoadBalancingAlgorithm \cup {"ROUND_ROBIN", "random", ""}}
  \cup {Body("object", FALSE, ""), Body("null", FALSE, ""),
        Body("not_json", FALSE, "")}
ClientIps == {"10.0.0.10"}
\* LLDP, ARP, IPv4 without a parsed header, IPv4 to the virtual address and
\* IPv4 to another address
Packets ==
  {Packet(ETH_TYPE_LLDP, FALSE, "", ""), Packet(ETH_TYPE_ARP, FALSE, "", ""),
   Packet(ETH_TYPE_IP, FALSE, "", "")}
  \cup {Packet(ETH_TYPE_IP, TRUE, c, d) :
          c \in ClientIps, d \in {virtual_ip, "10.0.0.7"}}

(***************************************************************************)
(* Init: SDNLoadBalancer.__init__ has run on the parsed list               *)
(***************************************************************************)
Constructed(cfgs) ==
  /\ config \in cfgs
  /\ load_balancer = (config # <<>>)
  /\ servers = InitServers(config, <<>>)
  /\ request_counts = InitRequestCounts(config, <<>>)
  /\ current_algorithm = ROUND_ROBIN
  /\ round_robin_index = 0
  /\ monitor_i = 1
  /\ last = Op("init", "", NoPacket, None, <<>>)
  /\ selections = <<>>
  /\ flow_table = [d \in SwitchIds |-> {}]
  /\ probe = NoProbe
  /\ call = NoCall

Init == Constructed(ControllerConfigs)

(***************************************************************************)
(* Operations                                                              *)
(***************************************************************************)
\* set_algorithm starting the new policy with a cursor of 0
SetAlgorithmResettingCursor(algorithm) ==
  /\ load_balancer
  /\ current_algorithm' = algorithm
  /\ round_robin_index' = 0
  /\ last' = Op("set_algorithm", "", NoPacket, None, <<>>)
  /\ UNCHANGED <<call, flow_table, probe, config, load_balancer, servers,
                 request_counts, monitor_i, selections>>

\* LoadBalancer.set_algorithm, reached through POST /api/algorithm
SetAlgorithm(algorithm) ==
  /\ load_balancer
  /\ current_algorithm' = algorithm
  /\ last' = Op("set_algorithm", "", NoPacket, None, <<>>)
  /\ UNCHANGED <<call, flow_table, probe, config, load_balancer, servers, request_counts,
                 round_robin_index, monitor_i, selections>>

\* POST /api/algorithm with the given body
ManageAlgorithm(body) ==
  /\ LET r == manage_algorithm(load_balancer, current_algorithm, body)
     IN  /\ current_algorithm' = r.algorithm
         /\ last' = Op("manage_algorithm", body.algorithm, NoPacket, r.status,
                       <<>>)
  /\ UNCHANGED <<call, flow_table, probe, config, load_balancer, servers,
                 request_counts, round_robin_index, monitor_i, selections>>

\* LoadBalancer.record_request(sid, latency_ms)
RecordRequest(sid, latency_ms) ==
  /\ load_balancer
  /\ DictHas(servers, sid) => SumCounts(request_counts, 1) < MaxRequests
  /\ LET r == record_request(servers, request_counts, sid, latency_ms)
     IN  /\ servers' = r.servers
         /\ request_counts' = r.request_counts
  /\ last' = Op("record_request", sid, NoPacket, None, <<>>)
  /\ UNCHANGED <<call, flow_table, probe, config, load_balancer, current_algorithm, round_robin_index,
                 monitor_i, selections>>

\* a probe whose exception leaves the for loop and ends the monitor thread
CheckServerHealthUncaught(response, latency_ms, now, metrics) ==
  /\ load_balancer
  /\ monitor_i \in 1..Len(servers)
  /\ servers' = [servers EXCEPT ![monitor_i].v =
                   _check_server_health(@, response, latency_ms, now, metrics)]
  /\ monitor_i' = IF response.raised # "" THEN 0 ELSE monitor_i + 1
  /\ last' = ProbeOp(servers[monitor_i].k, response)
  /\ UNCHANGED <<call, flow_table, probe, config, load_balancer, request_counts,
                 current_algorithm, round_robin_index, selections>>

\* one iteration of the for loop of _health_monitor
CheckServerHealth(response, latency_ms, now, metrics) ==
  /\ load_balancer
  /\ monitor_i \in 1..Len(servers)
  /\ servers' = [servers EXCEPT ![monitor_i].v =
                   _check_server_health(@, response, latency_ms, now, metrics)]
  /\ monitor_i' = monitor_i + 1
  /\ last' = ProbeOp(servers[monitor_i].k, response)
  /\ UNCHANGED <<call, flow_table, probe, config, load_balancer, request_counts, current_algorithm,
                 round_robin_index, selections>>

\* time.sleep(health_check_interval) and the next turn of while True
MonitorSleep ==
  /\ load_balancer
  /\ monitor_i > Len(servers)
  /\ monitor_i' = 1
  /\ UNCHANGED <<call, flow_table, probe, config, load_balancer, servers, request_counts,
                 current_algorithm, round_robin_index, last, selections>>

\* EventOFPSwitchFeatures
SwitchFeatures(datapath) ==
  /\ last' = EventOp("switch_features", datapath, 0, NoPacket, None,
                     switch_features_handler(datapath))
  /\ UNCHANGED <<call, flow_table, probe, config, load_balancer, servers, request_counts,
                 current_algorithm, round_robin_index, monitor_i, selections>>

\* EventOFPPacketIn
PacketIn(datapath, in_port, pkt) ==
  /\ round_robin_index < MaxCursor
  /\ LET r == packet_in_handler(load_balancer, servers, current_algorithm,
                                round_robin_index, datapath, in_port,
                                OFP_NO_BUFFER, pkt)
     IN  /\ servers' = r.servers
         /\ round_robin_index' = r.rr
         /\ last' = EventOp("packet_in", datapath, in_port, pkt, r.ret, r.out)
  /\ UNCHANGED <<call, flow_table, probe, config, load_balancer, request_counts, current_algorithm,
                 monitor_i, selections>>

Next ==
  \/ \E a \in LoadBalancingAlgorithm : SetAlgorithm(a)
  \/ \E sid \in RequestIds, l \in RecordLatencies : RecordRequest(sid, l)
  \/ \E o \in ProbeOutcomes, l \in ProbeLatencies, t \in TimeValues,
        m \in ProbeMetrics : CheckServerHealth(o, l, t, m)
  \/ MonitorSleep
  \/ \E d \in Datapaths : SwitchFeatures(d)
  \/ \E d \in Datapaths, p \in InPorts, pkt \in Packets : PacketIn(d, p, pkt)

Spec == Init /\ [][Next]_vars

(***************************************************************************)
(* Direct calls of LoadBalancer.select_server, as the unit tests make      *)
(* them, and the states they are made in                                   *)
(***************************************************************************)
\* the calls one run makes: two rounds over the healthy backends under
\* round-robin (the loop of test_round_robin_algorithm), one call otherwise
CallBudget(srv, alg) ==
  IF alg = ROUND_ROBIN /\ get_healthy_servers(srv) # <<>>
  THEN 2 * Len(get_healthy_servers(srv))
  ELSE 1

SelectServer ==
  /\ load_balancer
  /\ Len(selections) < CallBudget(servers, current_algorithm)
  /\ LET r == select_server(servers, current_algorithm, round_robin_index)
     IN  /\ servers' = r.servers
         /\ round_robin_index' = r.rr
         /\ last' = Op("select_server", "", NoPacket, r.ret, <<>>)
         /\ selections' =
              Append(selections,
                     IF r.ret = None THEN "None" ELSE server_id(servers[r.ret].v))
  /\ UNCHANGED <<call, flow_table, probe, config, load_balancer, request_counts, current_algorithm,
                 monitor_i>>

\* field values a descriptor can hold when a selection is made: the defaults,
\* the three configurations of the unit tests, a sub-millisecond latency, a
\* latency of exactly 1 ms and loads on either side of the 0.1 weight floor
MetricProfiles ==
  {[last_latency_ms |-> Zero, cpu_percent |-> Zero, memory_percent |-> Zero,
    active_connections |-> 0, weight |-> One],
   [last_latency_ms |-> Rat(100, 1), cpu_percent |-> Rat(80, 1),
    memory_percent |-> Rat(70, 1), active_connections |-> 5,
    weight |-> Rat(1, 100)],
   [last_latency_ms |-> Rat(1, 2), cpu_percent |-> Rat(30, 1),
    memory_percent |-> Rat(40, 1), active_connections |-> 2,
    weight |-> Rat(13, 20)],
   [last_latency_ms |-> One, cpu_percent |-> Rat(100, 1),
    memory_percent |-> Zero, active_connections |-> 8, weight |-> One],
   [last_latency_ms |-> Rat(75, 1), cpu_percent |-> Rat(95, 1),
    memory_percent |-> Rat(4, 1), active_connections |-> 2,
    weight |-> Rat(53, 100)]}

\* cursor values earlier round-robin calls leave behind
InitCursors == {0, 1, 5}

Arrange(srv, h, m) ==
  [i \in 1..Len(srv) |->
     [srv[i] EXCEPT !.v.healthy = h[i],
                    !.v.last_latency_ms = m[i].last_latency_ms,
                    !.v.cpu_percent = m[i].cpu_percent,
                    !.v.memory_percent = m[i].memory_percent,
                    !.v.active_connections = m[i].active_connections,
                    !.v.weight = m[i].weight]]

\* a registry of 1..MaxServers backends in any health and metric state, under
\* any policy and cursor
InitSelect ==
  /\ \E n \in 1..MaxServers :
       /\ config = [i \in 1..n |-> BackendAt(i)]
       /\ \E h \in [1..n -> BOOLEAN], m \in [1..n -> MetricProfiles] :
            servers = Arrange(InitServers(config, <<>>), h, m)
       /\ request_counts = InitRequestCounts(config, <<>>)
       /\ monitor_i = 1
  /\ load_balancer = TRUE
  /\ current_algorithm \in LoadBalancingAlgorithm
  /\ round_robin_index \in InitCursors
  /\ last = Op("init", "", NoPacket, None, <<>>)
  /\ selections = <<>>
  /\ flow_table = [d \in SwitchIds |-> {}]
  /\ probe = NoProbe
  /\ call = NoCall

NextSelect == SelectServer

SpecSelect == InitSelect /\ [][NextSelect]_vars

\* a freshly constructed LoadBalancer, for every list of pairs
InitFresh == Constructed(Configs)

NextFresh ==
  \/ SelectServer
  \/ \E a \in LoadBalancingAlgorithm : SetAlgorithm(a)

SpecFresh == InitFresh /\ [][NextFresh]_vars

(***************************************************************************)
(* The controller with two switches attached: events arrive from either    *)
(* switch, on a client-facing port or on the backend-facing port 2         *)
(***************************************************************************)
NextPacket ==
  \/ \E a \in LoadBalancingAlgorithm : SetAlgorithm(a)
  \/ \E o \in ProbeOutcomes, l \in ProbeLatencies, t \in TimeValues,
        m \in ProbeMetrics : CheckServerHealth(o, l, t, m)
  \/ MonitorSleep
  \/ \E d \in SwitchIds : SwitchFeatures(d)
  \/ \E d \in SwitchIds, p \in IngressPorts, pkt \in Packets : PacketIn(d, p, pkt)

SpecPacket == Init /\ [][NextPacket]_vars

(***************************************************************************)
(* The controller attached to OpenFlow 1.3 switches.  datapath.send_msg    *)
(* delivers a FlowMod to the switch, which adds the entry to its table; a  *)
(* packet is handled by a matching entry of the highest priority, and      *)
(* reaches the controller only through an entry that outputs to            *)
(* OFPP_CONTROLLER.  The entries carry no timeout, so they stay until the  *)
(* table is cleared.                                                       *)
(***************************************************************************)
FlowEntry(mod) ==
  [priority |-> mod.priority, match |-> mod.match, actions |-> mod.actions]

\* a field a match leaves out matches every packet
Matches(match, in_port, pkt) ==
  /\ match.in_port \in {0, in_port}
  /\ match.eth_type \in {"", pkt.ethertype}
  /\ match.ipv4_src = "" \/ (pkt.ipv4 /\ match.ipv4_src = pkt.src)
  /\ match.ipv4_dst = "" \/ (pkt.ipv4 /\ match.ipv4_dst = pkt.dst)

\* OFPFC_ADD: an entry with the same match and priority is replaced
FlowModApply(table, mod) ==
  {e \in table : ~(e.match = mod.match /\ e.priority = mod.priority)}
  \cup {FlowEntry(mod)}

RECURSIVE SendAll(_, _, _)
SendAll(tables, out, i) ==
  IF i > Len(out) THEN tables
  ELSE SendAll(IF out[i].type = "FlowMod"
               THEN [tables EXCEPT ![out[i].datapath] =
                       FlowModApply(@, out[i])]
               ELSE tables,
               out, i + 1)

\* the entries that can handle the packet: matching, of the highest priority
Lookup(table, in_port, pkt) ==
  {e \in table :
     /\ Matches(e.match, in_port, pkt)
     /\ \A f \in table : Matches(f.match, in_port, pkt) => f.priority <= e.priority}

ToController(e) ==
  \E i \in 1..Len(e.actions) :
    e.actions[i].type = "OUTPUT" /\ e.actions[i].port = OFPP_CONTROLLER

\* a switch connects (or reconnects): EventOFPSwitchFeatures and its FlowMod
SwitchConnect(datapath) ==
  /\ last' = EventOp("switch_features", datapath, 0, NoPacket, None,
                     switch_features_handler(datapath))
  /\ flow_table' = SendAll(flow_table, switch_features_handler(datapath), 1)
  /\ UNCHANGED <<call, probe, config, load_balancer, servers, request_counts,
                 current_algorithm, round_robin_index, monitor_i, selections>>

\* a packet arrives at a switch port: dropped on a table miss, handled in the
\* switch by a load-balancing entry, or sent to packet_in_handler
SwitchReceive(datapath, in_port, pkt) ==
  /\ current_algorithm = ROUND_ROBIN => round_robin_index < MaxCursor
  /\ LET hits == Lookup(flow_table[datapath], in_port, pkt)
     IN  IF hits = {}
         THEN /\ last' = EventOp("switch_drop", datapath, in_port, pkt, None, <<>>)
              /\ UNCHANGED <<servers, round_robin_index, flow_table>>
         ELSE \E e \in hits :
                IF ToController(e)
                THEN LET r == packet_in_handler(
                                load_balancer, servers, current_algorithm,
                                round_robin_index, datapath, in_port,
                                OFP_NO_BUFFER, pkt)
                     IN  /\ servers' = r.servers
                         /\ round_robin_index' = r.rr
                         /\ last' = EventOp("packet_in", datapath, in_port,
                                            pkt, r.ret, r.out)
                         /\ flow_table' = SendAll(flow_table, r.out, 1)
                ELSE /\ last' = EventOp("switch_forward", datapath, in_port,
                                        pkt, None, <<>>)
                     /\ UNCHANGED <<servers, round_robin_index, flow_table>>
  /\ UNCHANGED <<call, probe, config, load_balancer, request_counts,
                 current_algorithm, monitor_i, selections>>

\* the flow entries of a switch are cleared
SwitchClear(datapath) ==
  /\ flow_table[datapath] # {}
  /\ flow_table' = [flow_table EXCEPT ![datapath] = {}]
  /\ last' = EventOp("switch_clear", datapath, 0, NoPacket, None, <<>>)
  /\ UNCHANGED <<call, probe, config, load_balancer, servers, request_counts,
                 current_algorithm, round_robin_index, monitor_i, selections>>

\* two clients, so that one flow's entries meet another flow's packets
SwitchPackets ==
  {Packet(ETH_TYPE_LLDP, FALSE, "", ""), Packet(ETH_TYPE_ARP, FALSE, "", ""),
   Packet(ETH_TYPE_IP, TRUE, "10.0.0.10", "10.0.0.7")}
  \cup {Packet(ETH_TYPE_IP, TRUE, c, virtual_ip) :
          c \in {"10.0.0.10", "10.0.0.11"}}

\* the controller as constructed, with the health flags earlier probes left
InitSwitch ==
  /\ config \in ControllerConfigs
  /\ load_balancer = (config # <<>>)
  /\ \E h \in [1..Len(config) -> BOOLEAN] :
       servers = [i \in 1..Len(config) |->
                    [InitServers(config, <<>>)[i] EXCEPT !.v.healthy = h[i]]]
  /\ request_counts = InitRequestCounts(config, <<>>)
  /\ current_algorithm = ROUND_ROBIN
  /\ round_robin_index = 0
  /\ monitor_i = 1
  /\ last = Op("init", "", NoPacket, None, <<>>)
  /\ selections = <<>>
  /\ flow_table = [d \in SwitchIds |-> {}]
  /\ probe = NoProbe
  /\ call = NoCall

\* one switch, packets on either port
NextSwitch ==
  \/ \E a \in {ROUND_ROBIN, LEAST_CONNECTIONS} : SetAlgorithm(a)
  \/ \E d \in Datapaths : SwitchConnect(d)
  \/ \E d \in Datapaths, p \in IngressPorts, pkt \in SwitchPackets :
       SwitchReceive(d, p, pkt)
  \/ \E d \in Datapaths : SwitchClear(d)

SpecSwitch == InitSwitch /\ [][NextSwitch]_vars

(***************************************************************************)
(* The monitor thread alone: _health_monitor probes the backends in        *)
(* registry order, sleeps and starts over.  The thread is scheduled and    *)
(* requests.get returns within its timeout, so a probe or a sleep that can *)
(* be taken is taken (weak fairness).                                      *)
(***************************************************************************)
MonitorLatencies == {Rat(2, 1), Rat(7, 1)}
MonitorMetrics ==
  {[cpu_percent |-> Rat(95, 1), memory_percent |-> Rat(4, 1)],
   [cpu_percent |-> Rat(30, 1), memory_percent |-> Rat(40, 1)]}

MonitorProbe ==
  \E r \in Responses, l \in MonitorLatencies, t \in TimeValues,
     m \in MonitorMetrics : CheckServerHealth(r, l, t, m)

NextMonitor == MonitorProbe \/ MonitorSleep

SpecMonitor ==
  Init /\ [][NextMonitor]_vars /\ WF_vars(MonitorProbe) /\ WF_vars(MonitorSleep)

(***************************************************************************)
(* The monitor thread statement by statement, with a reader.  The thread   *)
(* of _health_monitor and the threads of the management API and of the     *)
(* dispatcher share the descriptors without a lock, so a reader can run    *)
(* between any two assignments of _check_server_health.                    *)
(***************************************************************************)
\* requests.get has returned or raised: the thread is at the status test
ProbeBegin(response, latency_ms, now, metrics) ==
  /\ load_balancer
  /\ probe.pc = "idle"
  /\ monitor_i \in 1..Len(servers)
  /\ probe' = [pc |-> IF response.raised # "" THEN "except"
                      ELSE IF response.status_code = 200 THEN "healthy"
                      ELSE "else",
               response |-> response, latency_ms |-> latency_ms, now |-> now,
               metrics |-> metrics, before |-> servers[monitor_i].v]
  /\ last' = Op("probe_begin", servers[monitor_i].k, NoPacket, None, <<>>)
  /\ UNCHANGED <<call, flow_table, config, load_balancer, servers, request_counts,
                 current_algorithm, round_robin_index, monitor_i, selections>>

\* the next assignment of _check_server_health; the last one ends the probe
ProbeStep ==
  /\ probe.pc # "idle"
  /\ LET i == monitor_i
         done == \/ probe.pc \in {"memory", "else", "except"}
     IN  /\ servers' =
              CASE probe.pc = "healthy" -> [servers EXCEPT ![i].v.healthy = TRUE]
                [] probe.pc = "latency" ->
                     [servers EXCEPT ![i].v.last_latency_ms = probe.latency_ms]
                [] probe.pc = "checked" ->
                     [servers EXCEPT ![i].v.last_health_check = probe.now]
                [] probe.pc = "cpu" ->
                     [servers EXCEPT ![i].v.cpu_percent = probe.metrics.cpu_percent]
                [] probe.pc = "memory" ->
                     [servers EXCEPT
                        ![i].v.memory_percent = probe.metrics.memory_percent]
                [] OTHER -> [servers EXCEPT ![i].v.healthy = FALSE]
         /\ probe' =
              IF done THEN NoProbe
              ELSE [probe EXCEPT !.pc =
                      CASE probe.pc = "healthy" -> "latency"
                        [] probe.pc = "latency" -> "checked"
                        [] probe.pc = "checked" ->
                             IF probe.response.json THEN "cpu" ELSE "except"
                        [] OTHER -> "memory"]
         /\ monitor_i' = IF done THEN i + 1 ELSE i
         /\ last' = IF done THEN ProbeOp(servers[i].k, probe.response)
                    ELSE Op("probe_step", servers[i].k, NoPacket, None, <<>>)
  /\ UNCHANGED <<call, flow_table, config, load_balancer, request_counts,
                 current_algorithm, round_robin_index, selections>>

\* GET /api/servers: a reader of every descriptor
GetServerStats ==
  /\ load_balancer
  /\ last' = Op("get_server_stats", "", NoPacket, None,
                get_server_stats(servers, request_counts,
                                 current_algorithm).servers)
  /\ UNCHANGED <<call, flow_table, probe, config, load_balancer, servers,
                 request_counts, current_algorithm, round_robin_index,
                 monitor_i, selections>>

\* the loop sleeps only between two probes
RaceSleep == probe.pc = "idle" /\ MonitorSleep

NextRace ==
  \/ \E r \in ProbeOutcomes, l \in ProbeLatencies, t \in TimeValues,
        m \in ProbeMetrics : ProbeBegin(r, l, t, m)
  \/ ProbeStep
  \/ RaceSleep
  \/ GetServerStats

SpecRace == Init /\ [][NextRace]_vars

\* the assignments of a probe taken together are _check_server_health
ProbeStepsAreCheckServerHealth ==
  [][(ProbeStep /\ probe'.pc = "idle") =>
       servers'[monitor_i].v =
         _check_server_health(probe.before, probe.response, probe.latency_ms,
                              probe.now, probe.metrics)]_vars

(***************************************************************************)
(* One cycle of the monitor thread with the request in flight: the for     *)
(* loop of _health_monitor calls _check_server_health for one backend      *)
(* after the other, and requests.get blocks the thread until the backend   *)
(* answers or the timeout of 5 s passes.                                   *)
(***************************************************************************)
\* requests.get is called for the backend in slot i
IssueProbe(i) ==
  /\ load_balancer
  /\ probe.pc = "idle"
  /\ i \in 1..Len(servers)
  /\ monitor_i = i
  /\ probe' = [NoProbe EXCEPT !.pc = "request", !.before = servers[i].v]
  /\ last' = Op("requests_get", servers[i].k, NoPacket, None, <<>>)
  /\ UNCHANGED <<call, flow_table, config, load_balancer, servers,
                 request_counts, current_algorithm, round_robin_index,
                 monitor_i, selections>>

\* requests.get returns or raises, and the rest of _check_server_health runs
ProbeReturns(response, latency_ms, now, metrics) ==
  /\ probe.pc = "request"
  /\ servers' = [servers EXCEPT ![monitor_i].v =
                   _check_server_health(@, response, latency_ms, now, metrics)]
  /\ monitor_i' = monitor_i + 1
  /\ probe' = NoProbe
  /\ last' = ProbeOp(servers[monitor_i].k, response)
  /\ UNCHANGED <<call, flow_table, config, load_balancer, request_counts,
                 current_algorithm, round_robin_index, selections>>

NextCycle ==
  \/ \E i \in 1..MaxServers : IssueProbe(i)
  \/ \E r \in ProbeOutcomes, l \in MonitorLatencies, t \in TimeValues,
        m \in MonitorMetrics : ProbeReturns(r, l, t, m)
  \/ RaceSleep

SpecCycle == Init /\ [][NextCycle]_vars

(***************************************************************************)
(* select_server statement by statement, with the other threads.  The      *)
(* dispatcher builds healthy_servers, a list of references to the shared   *)
(* ServerMetrics objects, then reads self.current_algorithm once per test  *)
(* of the if/elif chain and hands the list to the policy; the management   *)
(* API's set_algorithm and the monitor thread take no lock and can run     *)
(* between any two of these statements.                                    *)
(***************************************************************************)
\* the member of LoadBalancingAlgorithm a test of the chain compares with
TestedPolicy(pc) ==
  CASE pc = "if_rr" -> ROUND_ROBIN
    [] pc = "elif_lc" -> LEAST_CONNECTIONS
    [] pc = "elif_lw" -> LATENCY_WEIGHTED
    [] OTHER -> WEIGHTED_ROUND_ROBIN

\* the method a test that succeeds calls on the list
Dispatch(alg, srv, rr, hs) ==
  CASE alg = ROUND_ROBIN -> _round_robin_select(srv, rr, hs)
    [] alg = LEAST_CONNECTIONS -> _least_connections_select(srv, rr, hs)
    [] alg = LATENCY_WEIGHTED -> _latency_weighted_select(srv, rr, hs)
    [] OTHER -> _weighted_round_robin_select(srv, rr, hs)

\* select_server calls the dispatcher makes in one run
MaxCalls == 1

\* select_server is entered and builds healthy_servers
SelectBegin ==
  /\ load_balancer
  /\ call.pc = "idle"
  /\ Len(selections) < MaxCalls
  /\ LET hs == get_healthy_servers(servers)
     IN  IF hs = <<>>
         THEN /\ call' = NoCall
              /\ last' = Op("select_server", "", NoPacket, None, <<>>)
              /\ selections' = Append(selections, "None")
         ELSE /\ call' = [pc |-> "if_rr", healthy_servers |-> hs,
                          view |-> servers, seen |-> {current_algorithm}]
              /\ last' = Op("select_begin", "", NoPacket, None, <<>>)
              /\ selections' = selections
  /\ UNCHANGED <<flow_table, probe, config, load_balancer, servers,
                 request_counts, current_algorithm, round_robin_index,
                 monitor_i>>

\* the next test of the chain: the policy's method when the test succeeds,
\* the next test or, after the last one, healthy_servers[0] when it fails
SelectStep ==
  /\ call.pc # "idle"
  /\ LET hs == call.healthy_servers
         hit == current_algorithm = TestedPolicy(call.pc)
         r == IF hit
              THEN Dispatch(current_algorithm, servers, round_robin_index, hs)
              ELSE [ret |-> hs[1], servers |-> servers,
                    rr |-> round_robin_index]
     IN  IF hit \/ call.pc = "elif_wrr"
         THEN /\ servers' = r.servers
              /\ round_robin_index' = r.rr
              /\ call' = NoCall
              /\ last' = Op("select_server", "", NoPacket, r.ret, <<>>)
              /\ selections' = Append(selections, server_id(servers[r.ret].v))
         ELSE /\ call' = [call EXCEPT !.pc =
                            CASE call.pc = "if_rr" -> "elif_lc"
                              [] call.pc = "elif_lc" -> "elif_lw"
                              [] OTHER -> "elif_wrr"]
              /\ last' = Op("select_test", "", NoPacket, None, <<>>)
              /\ UNCHANGED <<servers, round_robin_index, selections>>
  /\ UNCHANGED <<flow_table, probe, config, load_balancer, request_counts,
                 current_algorithm, monitor_i>>

\* set_algorithm from the management API's thread, during a call or not
SetAlgorithmConcurrently(algorithm) ==
  /\ load_balancer
  /\ current_algorithm' = algorithm
  /\ call' = IF call.pc = "idle" THEN call
             ELSE [call EXCEPT !.seen = @ \cup {algorithm}]
  /\ last' = Op("set_algorithm", "", NoPacket, None, <<>>)
  /\ UNCHANGED <<flow_table, probe, config, load_balancer, servers,
                 request_counts, round_robin_index, monitor_i, selections>>

\* a probe that succeeds and one that times out
ConcurrentOutcomes == {Response("", 200, TRUE), Response("Timeout", 0, FALSE)}

NextConcurrent ==
  \/ SelectBegin
  \/ SelectStep
  \/ \E a \in LoadBalancingAlgorithm : SetAlgorithmConcurrently(a)
  \/ \E o \in ConcurrentOutcomes, l \in ProbeLatencies, t \in TimeValues,
        m \in ProbeMetrics : CheckServerHealth(o, l, t, m)
  \/ MonitorSleep
  \/ \E sid \in RequestIds, l \in RecordLatencies : RecordRequest(sid, l)

SpecConcurrent == Init /\ [][NextConcurrent]_vars

\* run without interference, the statements of a call are select_server
SelectStepsAreSelectServer ==
  [][(SelectStep /\ call'.pc = "idle" /\ call.seen = {current_algorithm}
        /\ call.view = servers)
       => LET r == select_server(servers, current_algorithm, round_robin_index)
          IN  /\ last'.ret = r.ret
              /\ servers' = r.servers
              /\ round_robin_index' = r.rr]_vars

(***************************************************************************)
(* The controller with an operator posting to /api/algorithm while packets *)
(* arrive and the monitor probes                                           *)
(***************************************************************************)
NextAdmin ==
  \/ \E b \in AdminBodies : ManageAlgorithm(b)
  \/ \E o \in ConcurrentOutcomes, l \in ProbeLatencies, t \in TimeValues,
        m \in ProbeMetrics : CheckServerHealth(o, l, t, m)
  \/ MonitorSleep
  \/ \E d \in Datapaths, p \in InPorts, pkt \in Packets : PacketIn(d, p, pkt)

SpecAdmin == Init /\ [][NextAdmin]_vars

(***************************************************************************)
(* The controller from its start: SDNLoadBalancer.__init__ parses          *)
(* BACKEND_SERVERS and constructs the LoadBalancer only for a list that is *)
(* not empty                                                               *)
(***************************************************************************)
\* entries of BACKEND_SERVERS: three that parse (two of them naming the same
\* backend), a port that is no number, no colon, two colons, the empty entry
EntryPool ==
  {<<"127.0.0.1", "5001">>, <<"127.0.0.1", "05001">>, <<"127.0.0.1", " 5002">>,
   <<"127.0.0.1", "http">>, <<"127.0.0.1">>, <<"127.0.0.1", "5001", "x">>,
   <<"">>}

MaxEntries == 2

\* every list of at most MaxEntries entries; the text of a single empty entry
\* is the empty text, which is the unset variable
StartupEnvs ==
  UNION {[1..n -> EntryPool] : n \in 0..MaxEntries} \ {<<<<"">>>>}

InitStartup ==
  \E e \in StartupEnvs :
    /\ config = _parse_servers(e)
    /\ load_balancer = (config # <<>>)
    /\ servers = (IF config # <<>> THEN InitServers(config, <<>>) ELSE <<>>)
    /\ request_counts =
         (IF config # <<>> THEN InitRequestCounts(config, <<>>) ELSE <<>>)
    /\ current_algorithm = ROUND_ROBIN
    /\ round_robin_index = 0
    /\ monitor_i = 1
    /\ last = Op("init", JoinEntries(e, 1), NoPacket, None, <<>>)
    /\ selections = <<>>
    /\ flow_table = [d \in SwitchIds |-> {}]
    /\ probe = NoProbe
    /\ call = NoCall

NextStartup ==
  \/ \E b \in AdminBodies : ManageAlgorithm(b)
  \/ \E o \in ConcurrentOutcomes, l \in ProbeLatencies, t \in TimeValues,
        m \in ProbeMetrics : CheckServerHealth(o, l, t, m)
  \/ MonitorSleep
  \/ \E d \in Datapaths : SwitchFeatures(d)
  \/ \E d \in Datapaths, p \in InPorts, pkt \in Packets : PacketIn(d, p, pkt)

SpecStartup == InitStartup /\ [][NextStartup]_vars

(***************************************************************************)
(* Every operation of the core: the controller's life with the management  *)
(* API's read of the registry                                              *)
(***************************************************************************)
NextCore == Next \/ GetServerStats

SpecCore == Init /\ [][NextCore]_vars

(***************************************************************************)
(* The operations that could touch the round-robin cursor: selections for  *)
(* packets to the virtual address, other packets, policy switches, probes, *)
(* recorded requests and reads                                             *)
(***************************************************************************)
CursorPackets ==
  {Packet(ETH_TYPE_ARP, FALSE, "", "")}
  \cup {Packet(ETH_TYPE_IP, TRUE, c, virtual_ip) : c \in ClientIps}

NextCursor ==
  \/ \E a \in LoadBalancingAlgorithm : SetAlgorithm(a)
  \/ \E d \in Datapaths, p \in InPorts, pkt \in CursorPackets :
       PacketIn(d, p, pkt)
  \/ \E o \in ConcurrentOutcomes, l \in ProbeLatencies, t \in TimeValues,
        m \in ProbeMetrics : CheckServerHealth(o, l, t, m)
  \/ MonitorSleep
  \/ \E sid \in RequestIds, l \in RecordLatencies : RecordRequest(sid, l)
  \/ GetServerStats

SpecCursor == Init /\ [][NextCursor]_vars

(***************************************************************************)
(* Properties                                                              *)
(***************************************************************************)
Range(seq) == {seq[i] : i \in 1..Len(seq)}
\* slots and ids of the healthy backends, in registry order
HealthySlots == {i \in 1..Len(servers) : servers[i].v.healthy}
Healthy ==
  [k \in 1..Cardinality(HealthySlots) |->
     CHOOSE i \in HealthySlots :
       Cardinality({j \in HealthySlots : j < i}) = k - 1]
HealthyIds == [i \in 1..Len(Healthy) |-> servers[Healthy[i]].k]
Selected == last.op = "select_server"
\* "host:port" of a configured pair, written out independently of the model
HostPort(pair) == pair[1] \o ":" \o ToString(pair[2])

\* C1 as stated: under round-robin with N >= 1 healthy backends of unchanging
\* health, 2N consecutive select_server calls return the healthy backends in
\* insertion order, twice over (A,B,C,A,B,C).
C1_TwoRoundsFromFirst ==
  (current_algorithm = ROUND_ROBIN /\ Len(Healthy) >= 1
     /\ Len(selections) = 2 * Len(Healthy))
  => selections = HealthyIds \o HealthyIds

\* C1 amended: the 2N calls starting at cursor c return H[(c + i) mod N] for
\* i = 0..2N-1, so every healthy backend exactly twice in cyclic insertion
\* order; the sequence is A,B,C,A,B,C exactly when c is a multiple of N.
C1_TwoRoundsCyclic ==
  (current_algorithm = ROUND_ROBIN /\ Len(Healthy) >= 1
     /\ Len(selections) = 2 * Len(Healthy))
  => LET n == Len(Healthy)
         c == round_robin_index - 2 * n
     IN  /\ c >= 0
         /\ \A i \in 1..(2 * n) :
              selections[i] = HealthyIds[((c + i - 1) % n) + 1]
         /\ \A id \in Range(HealthyIds) :
              Cardinality({i \in 1..(2 * n) : selections[i] = id}) = 2
         /\ (selections = HealthyIds \o HealthyIds) <=> (c % n = 0)

C1_Witness ==
  /\ current_algorithm = ROUND_ROBIN
  /\ Len(Healthy) = 3
  /\ Len(selections) = 6
  /\ round_robin_index = 6
  /\ selections = HealthyIds \o HealthyIds

\* C2: under least-connections select_server returns a healthy backend and no
\* healthy backend has strictly fewer active connections than the one returned.
C2_LeastConnectionsMinimal ==
  (Selected /\ current_algorithm = LEAST_CONNECTIONS /\ Healthy # <<>>)
  => /\ last.ret \in Range(Healthy)
     /\ \A j \in Range(Healthy) :
          servers[last.ret].v.active_connections
            <= servers[j].v.active_connections

C2_Witness ==
  /\ Selected /\ current_algorithm = LEAST_CONNECTIONS
  /\ Len(Healthy) = 3
  /\ last.ret = Healthy[2]
  /\ servers[Healthy[1]].v.active_connections = 5
  /\ servers[Healthy[2]].v.active_connections = 2
  /\ servers[Healthy[3]].v.active_connections = 8

\* C3 as stated: under latency-weighted select_server returns the healthy
\* backend whose positive last_latency_ms is minimal, whatever the latencies
\* (zero and sub-millisecond ones included).
C3_MinimalPositiveLatency ==
  (Selected /\ current_algorithm = LATENCY_WEIGHTED)
  => LET P == {j \in Range(Healthy) : RatLess(Zero, servers[j].v.last_latency_ms)}
     IN  P # {} =>
           /\ last.ret \in P
           /\ \A j \in P : RatLeq(servers[last.ret].v.last_latency_ms,
                                  servers[j].v.last_latency_ms)

\* C3 amended: a healthy backend whose last_latency_ms is not positive counts
\* as a backend of exactly 1 ms (weight 1.0); the backend returned is healthy
\* and minimal for that effective latency, hence of minimal last_latency_ms
\* whenever every healthy backend has a positive latency.
C3_MinimalEffectiveLatency ==
  (Selected /\ current_algorithm = LATENCY_WEIGHTED /\ Healthy # <<>>)
  => LET lat(j) == servers[j].v.last_latency_ms
         eff(j) == IF RatLess(Zero, lat(j)) THEN lat(j) ELSE One
     IN  /\ last.ret \in Range(Healthy)
         /\ \A j \in Range(Healthy) : RatLeq(eff(last.ret), eff(j))
         /\ (\A j \in Range(Healthy) : RatLess(Zero, lat(j)))
              => \A j \in Range(Healthy) : RatLeq(lat(last.ret), lat(j))

C3_Witness ==
  /\ Selected /\ current_algorithm = LATENCY_WEIGHTED
  /\ Len(Healthy) = 3
  /\ \A j \in Range(Healthy) : RatLess(Zero, servers[j].v.last_latency_ms)
  /\ servers[Healthy[2]].v.last_latency_ms = Rat(1, 2)
  /\ servers[Healthy[1]].v.last_latency_ms = Rat(100, 1)
  /\ last.ret = Healthy[2]

\* C4 as stated: under weighted-round-robin select_server returns a healthy
\* backend that minimises cpu_percent/100 + memory_percent/100, for every
\* cpu/memory in 0..100.
C4_MinimalLoadSum ==
  (Selected /\ current_algorithm = WEIGHTED_ROUND_ROBIN /\ Healthy # <<>>)
  => LET load(j) == RatAdd(RatDiv(servers[j].v.cpu_percent, Rat(100, 1)),
                           RatDiv(servers[j].v.memory_percent, Rat(100, 1)))
     IN  /\ last.ret \in Range(Healthy)
         /\ \A j \in Range(Healthy) : RatLeq(load(last.ret), load(j))

\* C4 amended: a cpu or memory percentage above 90 counts as 90 (the 0.1
\* floor); the backend returned is healthy and minimises
\* min(cpu, 90)/100 + min(mem, 90)/100, hence cpu/100 + mem/100 whenever no
\* healthy backend has a percentage above 90.
C4_MinimalCappedLoadSum ==
  (Selected /\ current_algorithm = WEIGHTED_ROUND_ROBIN /\ Healthy # <<>>)
  => LET cap(x) == IF RatLess(Rat(90, 1), x) THEN Rat(90, 1) ELSE x
         capped(j) == RatAdd(cap(servers[j].v.cpu_percent),
                             cap(servers[j].v.memory_percent))
         load(j) == RatAdd(servers[j].v.cpu_percent,
                           servers[j].v.memory_percent)
     IN  /\ last.ret \in Range(Healthy)
         /\ \A j \in Range(Healthy) : RatLeq(capped(last.ret), capped(j))
         /\ (\A j \in Range(Healthy) :
               /\ RatLeq(servers[j].v.cpu_percent, Rat(90, 1))
               /\ RatLeq(servers[j].v.memory_percent, Rat(90, 1)))
              => \A j \in Range(Healthy) : RatLeq(load(last.ret), load(j))

C4_Witness ==
  /\ Selected /\ current_algorithm = WEIGHTED_ROUND_ROBIN
  /\ Len(Healthy) = 3
  /\ servers[Healthy[1]].v.cpu_percent = Rat(80, 1)
  /\ servers[Healthy[2]].v.cpu_percent = Rat(30, 1)
  /\ servers[Healthy[3]].v.cpu_percent = Rat(100, 1)
  /\ last.ret = Healthy[2]

\* C5: under every policy the backend select_server returns was healthy in the
\* snapshot, and when exactly one backend is healthy it is the one returned,
\* whatever the metrics and the cursor.
C5_OnlyHealthyReturned ==
  Selected =>
    /\ last.ret # None => last.ret \in Range(Healthy)
    /\ Len(Healthy) = 1 => last.ret = Healthy[1]

C5_Witness ==
  /\ Selected
  /\ Len(servers) = 3
  /\ Healthy = <<3>>
  /\ last.ret = 3
  /\ round_robin_index > 1

\* C6: with no healthy backend select_server returns None under each of the
\* four policies and changes nothing: cursor, weights, descriptors, counters.
C6_NoHealthyNoChange ==
  [][(SelectServer /\ HealthySlots = {})
       => /\ last'.ret = None
          /\ servers' = servers
          /\ round_robin_index' = round_robin_index
          /\ request_counts' = request_counts
          /\ current_algorithm' = current_algorithm]_vars

C6_Witness ==
  /\ Selected
  /\ Len(servers) >= 2
  /\ Healthy = <<>>
  /\ last.ret = None
  /\ selections = <<"None">>

\* C7: record_request(sid, latency) for a known sid sets that backend's latency,
\* adds exactly one to its total_requests and to its request counter and
\* changes nothing else; for an unknown sid nothing changes and no entry is
\* created.
C7_RecordRequestFrame ==
  [][\A sid \in RequestIds, l \in RecordLatencies :
       RecordRequest(sid, l) =>
         /\ DictKeys(servers') = DictKeys(servers)
         /\ DictKeys(request_counts') = DictKeys(request_counts)
         /\ current_algorithm' = current_algorithm
         /\ round_robin_index' = round_robin_index
         /\ load_balancer' = load_balancer
         /\ \A i \in 1..Len(servers) :
              IF server_id(servers[i].v) = sid
              THEN /\ servers'[i].v.last_latency_ms = l
                   /\ servers'[i].v.total_requests
                        = servers[i].v.total_requests + 1
                   /\ \A f \in {"ip", "port", "healthy", "cpu_percent",
                                "memory_percent", "active_connections",
                                "last_health_check", "weight"} :
                        servers'[i].v[f] = servers[i].v[f]
              ELSE servers'[i] = servers[i]
         /\ \A i \in 1..Len(request_counts) :
              request_counts'[i].v =
                request_counts[i].v
                  + (IF request_counts[i].k = sid THEN 1 ELSE 0)]_vars

C7_Witness ==
  /\ last.op = "record_request"
  /\ last.arg = "127.0.0.1:5002"
  /\ Len(servers) = 2
  /\ DictGet(servers, "127.0.0.1:5002").total_requests = 1
  /\ DictGet(servers, "127.0.0.1:5002").last_latency_ms = Rat(1, 2)
  /\ DictGet(request_counts, "127.0.0.1:5002") = 1
  /\ DictGet(servers, "127.0.0.1:5001").total_requests = 0

\* C8: the constructor leaves a registry whose ids are exactly the configured
\* host:port strings, in the order of their first appearance in the list, each
\* descriptor healthy with weight 1.0, and the policy round-robin.
C8_FreshRegistry ==
  last.op = "init" =>
    LET ids == [i \in 1..Len(config) |-> HostPort(config[i])]
        first(key) == CHOOSE i \in 1..Len(ids) :
                        ids[i] = key /\ \A j \in 1..(i - 1) : ids[j] # key
    IN  /\ DictKeySet(servers) = Range(ids)
        /\ DictKeySet(request_counts) = Range(ids)
        /\ Cardinality(Range(ids)) = Len(servers)
        /\ \A a, b \in 1..Len(servers) :
             a < b => first(servers[a].k) < first(servers[b].k)
        /\ \A i \in 1..Len(servers) :
             /\ servers[i].v.healthy
             /\ servers[i].v.weight = One
             /\ HostPort(<<servers[i].v.ip, servers[i].v.port>>) = servers[i].k
        /\ current_algorithm = ROUND_ROBIN

C8_Witness ==
  /\ last.op = "init"
  /\ Len(config) = 3
  /\ Len(servers) = 2
  /\ servers[1].k = "127.0.0.1:5003"
  /\ servers[2].k = "127.0.0.1:5001"
  /\ servers[2].v.healthy

\* C9: in every reachable state the registry holds exactly the server ids it
\* was constructed with, each once and each naming its own descriptor.
C9_ServerIdsFixed ==
  /\ DictKeySet(servers) = {HostPort(config[i]) : i \in 1..Len(config)}
  /\ Cardinality(DictKeySet(servers)) = Len(servers)
  /\ \A i \in 1..Len(servers) :
       HostPort(<<servers[i].v.ip, servers[i].v.port>>) = servers[i].k

C9_Witness ==
  /\ last.op = "record_request"
  /\ last.arg = "10.9.9.9:1"
  /\ Len(servers) = 2
  /\ round_robin_index > 0
  /\ current_algorithm = LATENCY_WEIGHTED
  /\ ~servers[1].v.healthy
  /\ servers[2].v.total_requests > 0

\* C10 as stated: every PacketIn that is not an LLDP frame is answered by
\* exactly one PacketOut flooding that packet, also when no backend pool is
\* configured.
C10_EveryPacketFlooded ==
  (last.op = "packet_in" /\ last.pkt.ethertype # ETH_TYPE_LLDP)
  => \E i \in 1..Len(last.out) :
       /\ {j \in 1..Len(last.out) : last.out[j].type = "PacketOut"} = {i}
       /\ last.out[i].actions = <<OFPActionOutput(OFPP_FLOOD)>>
       /\ last.out[i].data = last.pkt

\* C10 amended: with a backend pool configured, every PacketIn that is not an
\* LLDP frame is answered by exactly one PacketOut flooding that packet,
\* whatever selection did; with no pool configured the handler sends nothing.
C10_FloodedWhenPoolConfigured ==
  (last.op = "packet_in" /\ last.pkt.ethertype # ETH_TYPE_LLDP)
  => IF load_balancer
     THEN \E i \in 1..Len(last.out) :
            /\ {j \in 1..Len(last.out) : last.out[j].type = "PacketOut"} = {i}
            /\ last.out[i].actions = <<OFPActionOutput(OFPP_FLOOD)>>
            /\ last.out[i].data = last.pkt
            /\ last.out[i].in_port \in InPorts
     ELSE last.out = <<>>

C10_Witness ==
  /\ last.op = "packet_in"
  /\ last.pkt.dst = virtual_ip
  /\ Healthy = <<>>
  /\ Len(servers) = 2
  /\ Len(last.out) = 1
  /\ last.out[1].type = "PacketOut"

\* the FlowMods among the messages the last handler sent
FlowMods == SelectSeq(last.out, LAMBDA m : m.type = "FlowMod")
PacketOuts == SelectSeq(last.out, LAMBDA m : m.type = "PacketOut")
ToVirtualIp == last.pkt.ethertype = ETH_TYPE_IP /\ last.pkt.ipv4
               /\ last.pkt.dst = virtual_ip

C12_NoBackendNoRules ==
  (last.op = "packet_in" /\ ToVirtualIp /\ load_balancer /\ last.ret = None)
  => /\ FlowMods = <<>>
     /\ Len(PacketOuts) = 1
     /\ PacketOuts[1].actions =
          <<[type |-> "OUTPUT", port |-> OFPP_FLOOD, field |-> "", value |-> ""]>>
     /\ PacketOuts[1].data = last.pkt
     /\ PacketOuts[1].datapath = last.datapath

C12_Witness ==
  /\ last.op = "packet_in" /\ ToVirtualIp /\ load_balancer
  /\ last.ret = None
  /\ Len(servers) = 2
  /\ HealthySlots = {}
  /\ last.out # <<>>

\* C13: a switch-connect event makes the controller send that switch exactly
\* one FlowMod (match-all, priority 0, single action output-to-controller) and
\* nothing else, with or without a backend pool.
C13_DefaultRuleOnConnect ==
  last.op = "switch_features"
  => /\ Len(last.out) = 1
     /\ last.out[1].type = "FlowMod"
     /\ last.out[1].datapath = last.datapath
     /\ last.out[1].priority = 0
     /\ last.out[1].match =
          [in_port |-> 0, eth_type |-> "", ipv4_src |-> "", ipv4_dst |-> ""]
     /\ last.out[1].actions =
          <<[type |-> "OUTPUT", port |-> OFPP_CONTROLLER, field |-> "",
             value |-> ""]>>

C13_Witness ==
  /\ last.op = "switch_features"
  /\ ~load_balancer
  /\ last.datapath = 2
  /\ Len(last.out) = 1

\* C14: a packet-in carrying an LLDP frame causes no selection, no FlowMod and
\* no PacketOut and leaves cursor, weights, descriptors and counters unchanged.
C14_LldpIgnored ==
  [][\A d \in SwitchIds, p \in IngressPorts :
       PacketIn(d, p, Packet(ETH_TYPE_LLDP, FALSE, "", ""))
       => /\ last'.out = <<>>
          /\ last'.ret = None
          /\ servers' = servers
          /\ round_robin_index' = round_robin_index
          /\ request_counts' = request_counts
          /\ current_algorithm' = current_algorithm]_vars

C14_Witness ==
  /\ last.op = "packet_in"
  /\ last.pkt.ethertype = ETH_TYPE_LLDP
  /\ load_balancer
  /\ HealthySlots # {}
  /\ last.out = <<>>
  /\ last.ret = None

\* the forward and the reverse entry of the flow (in_port, client -> virtual
\* address) are in the table of the switch
RulesInstalled(datapath, in_port, client_ip) ==
  /\ \E e \in flow_table[datapath] :
       /\ e.match.in_port = in_port /\ e.match.ipv4_src = client_ip
       /\ e.match.ipv4_dst = virtual_ip
       /\ \E i \in 1..Len(e.actions) : e.actions[i].field = "ipv4_dst"
  /\ \E e \in flow_table[datapath] :
       /\ e.match.ipv4_dst = client_ip
       /\ \E i \in 1..Len(e.actions) :
            e.actions[i].field = "ipv4_src" /\ e.actions[i].value = virtual_ip

\* C15: while the forward and reverse entries of a flow are in the table of a
\* switch, a packet of that flow (same ingress port, client address, virtual
\* destination) arriving at the switch is handled by the switch and is not
\* delivered to the controller as a packet-in.
C15_InstalledFlowBypassesController ==
  [][\A d \in Datapaths, p \in IngressPorts, pkt \in SwitchPackets :
       (/\ SwitchReceive(d, p, pkt)
        /\ pkt.ipv4 /\ pkt.dst = virtual_ip
        /\ RulesInstalled(d, p, pkt.src))
       => /\ last'.op = "switch_forward"
          /\ servers' = servers
          /\ round_robin_index' = round_robin_index
          /\ flow_table' = flow_table]_vars

C15_Witness ==
  /\ last.op = "switch_forward"
  /\ last.pkt.dst = virtual_ip
  /\ last.in_port = 2
  /\ RulesInstalled(last.datapath, 2, last.pkt.src)
  /\ ~RulesInstalled(last.datapath, 1, last.pkt.src)
  /\ \E e \in flow_table[last.datapath] : ToController(e)

\* the response counts as a success in the sense of the claims: any 2xx status
Is2xx(response) ==
  response.raised = "" /\ response.status_code \in 200..299

\* C16 as stated: a probe answered with any 2xx status (and a JSON body) marks
\* the backend healthy, records the measured latency and stores the body's
\* cpu_percent / memory_percent; any other status or a transport error marks
\* it unhealthy.
C16_Any2xxHealthy ==
  [][\A r \in Responses, l \in MonitorLatencies, t \in TimeValues,
        m \in MonitorMetrics :
       CheckServerHealth(r, l, t, m) =>
         LET after == servers'[monitor_i].v
         IN  /\ (Is2xx(r) /\ r.json) =>
                  /\ after.healthy
                  /\ after.last_latency_ms = l
                  /\ after.cpu_percent = m.cpu_percent
                  /\ after.memory_percent = m.memory_percent
             /\ ~Is2xx(r) => ~after.healthy]_vars

\* C17 as stated: a failed probe (timeout, connection error, non-2xx status,
\* malformed body) ends with healthy false and with last_latency_ms,
\* cpu_percent and memory_percent as they were before the probe.
C17_FailedProbeKeepsMetrics ==
  [][\A r \in Responses, l \in MonitorLatencies, t \in TimeValues,
        m \in MonitorMetrics :
       (CheckServerHealth(r, l, t, m) /\ (~Is2xx(r) \/ ~r.json)) =>
         LET before == servers[monitor_i].v
             after == servers'[monitor_i].v
         IN  /\ ~after.healthy
             /\ after.last_latency_ms = before.last_latency_ms
             /\ after.cpu_percent = before.cpu_percent
             /\ after.memory_percent = before.memory_percent]_vars

\* C20: the probe loop never ends: whatever the probes end in, every backend
\* of the registry is probed again and again (infinitely often), each probe
\* returning within its timeout.
C20_EveryBackendProbedForever ==
  \A i \in 1..MaxServers :
    []<>(i <= Len(servers) =>
           (last.op = "check_server_health" /\ last.arg = servers[i].k))

C20_Witness ==
  /\ last.op = "check_server_health"
  /\ Len(servers) = 2
  /\ last.arg = servers[2].k
  /\ last.response.raised = "Timeout"
  /\ servers[2].v.last_health_check = 1
  /\ ~servers[2].v.healthy
  /\ ~servers[1].v.healthy

\* the descriptor of slot i as its last completed probe (or the constructor)
\* left it
Completed(i) ==
  IF probe.pc # "idle" /\ i = monitor_i THEN probe.before ELSE servers[i].v

\* C18 as stated: a reader running concurrently with the health prober never
\* sees a half-updated descriptor: the health flag, latency, cpu and memory it
\* reads all come from the same completed probe update.
C18_ReadersSeeCompletedProbes ==
  last.op = "get_server_stats" =>
    \A i \in 1..Len(servers) :
      /\ last.out[i].healthy = Completed(i).healthy
      /\ last.out[i].latency_ms = RoundTo(Completed(i).last_latency_ms, 100)
      /\ last.out[i].cpu_percent = RoundTo(Completed(i).cpu_percent, 100)
      /\ last.out[i].memory_percent = RoundTo(Completed(i).memory_percent, 100)

\* a step of the health-probe loop
ProbeLoopStep ==
  \/ \E r \in ProbeOutcomes, l \in ProbeLatencies, t \in TimeValues,
        m \in ProbeMetrics : CheckServerHealth(r, l, t, m)
  \/ MonitorSleep

\* C19 as stated: the health-probe loop is the only writer of healthy,
\* last_latency_ms, cpu_percent, memory_percent and last_health_check: no
\* other operation changes any of the five in any descriptor.
C19_ProbeLoopOnlyWriter ==
  [][ProbeLoopStep \/
     \A i \in 1..Len(servers) :
       \A f \in {"healthy", "last_latency_ms", "cpu_percent", "memory_percent",
                 "last_health_check"} :
         servers'[i].v[f] = servers[i].v[f]]_vars

\* C19, amended: the health-probe loop is the only writer of healthy,
\* cpu_percent, memory_percent and last_health_check; last_latency_ms is
\* written by the probe loop and by record_request for the registered id it is
\* called with; no other operation changes any of the five in any descriptor.
C19_ProbeLoopAndRecordRequestWriters ==
  [][ProbeLoopStep \/
     \A i \in 1..Len(servers) :
       /\ \A f \in {"healthy", "cpu_percent", "memory_percent",
                    "last_health_check"} :
            servers'[i].v[f] = servers[i].v[f]
       /\ servers'[i].v.last_latency_ms # servers[i].v.last_latency_ms =>
            \E l \in RecordLatencies :
              /\ RecordRequest(servers[i].k, l)
              /\ servers'[i].v.last_latency_ms = l]_vars

\* a request recorded for a backend the probe loop has marked unhealthy: the
\* latency is the request's, the health flag is still the probe's
C19_Witness ==
  /\ last.op = "record_request"
  /\ \E i \in 1..Len(servers) :
       /\ servers[i].k = last.arg
       /\ ~servers[i].v.healthy
       /\ servers[i].v.last_latency_ms \in RecordLatencies
       /\ servers[i].v.total_requests = 1

\* C21 as stated: within one cycle the probes are independent: while the
\* probe of one backend is outstanding, the probe of every backend still to be
\* probed in that cycle can be issued, so a backend that answers only at its
\* timeout postpones no other probe.
C21_ProbesIssuedIndependently ==
  probe.pc = "request" =>
    \A j \in 1..Len(servers) : j > monitor_i => ENABLED IssueProbe(j)

\* C22 as stated: also when set_algorithm runs during a select_server call,
\* the backend returned is the one the rule of some policy prescribes that was
\* the active policy at some moment of the call; it is never a result that no
\* such policy prescribes.
C22_SelectionUsesAnActivePolicy ==
  [][(SelectStep /\ call'.pc = "idle")
       => \E p \in call.seen :
            last'.ret = Dispatch(p, servers, round_robin_index,
                                 call.healthy_servers).ret]_vars

\* C24 as stated: the backend returned is the active policy's rule applied to
\* the field values the backends of the healthy snapshot had when the snapshot
\* was taken, also when a probe or record_request updates descriptors while
\* the call is in progress (the policy itself unchanged during the call).
C24_SelectionUsesSnapshotValues ==
  [][(SelectStep /\ call'.pc = "idle" /\ call.seen = {current_algorithm})
       => last'.ret = Dispatch(current_algorithm, call.view, round_robin_index,
                               call.healthy_servers).ret]_vars

\* C23: a request to set the policy to a name that is not one of the four
\* recognized values, or that carries no name at all, is answered with an
\* error status and leaves the active policy, the round-robin cursor, the
\* descriptors and the counters as they were.
C23_InvalidPolicyRejected ==
  [][\A b \in AdminBodies :
       (ManageAlgorithm(b)
          /\ ~(b.kind = "object" /\ b.has
                 /\ b.algorithm \in {"round_robin", "least_connections",
                                      "latency_weighted",
                                      "weighted_round_robin"}))
       => /\ last'.ret >= 400
          /\ current_algorithm' = current_algorithm
          /\ round_robin_index' = round_robin_index
          /\ servers' = servers
          /\ request_counts' = request_counts]_vars

\* a member's name, not its value, refused after the policy had been changed
\* and the cursor advanced
C23_Witness ==
  /\ last.op = "manage_algorithm"
  /\ last.arg = "ROUND_ROBIN"
  /\ last.ret = 400
  /\ current_algorithm = LATENCY_WEIGHTED
  /\ round_robin_index > 0

\* C25 as stated: total_requests of a backend counts the flows routed to it:
\* no step decreases it, and every packet-in event adds one to the backend
\* that was selected and had the flow's rules installed, and nothing to the
\* others, so that it equals the number of such flows after any sequence of
\* packet-in events.
C25_TotalRequestsCountsRoutedFlows ==
  [][/\ \A i \in 1..Len(servers) :
          servers'[i].v.total_requests >= servers[i].v.total_requests
     /\ \A d \in SwitchIds, p \in IngressPorts, pkt \in Packets :
          PacketIn(d, p, pkt) =>
            \A i \in 1..Len(servers) :
              servers'[i].v.total_requests =
                servers[i].v.total_requests
                  + (IF last'.ret = i
                          /\ \E k \in 1..Len(last'.out) :
                               last'.out[k].type = "FlowMod"
                     THEN 1 ELSE 0)]_vars

SelectionStep ==
  \E d \in Datapaths, p \in InPorts, pkt \in CursorPackets :
    /\ PacketIn(d, p, pkt)
    /\ load_balancer
    /\ pkt.ethertype = ETH_TYPE_IP /\ pkt.ipv4 /\ pkt.dst = virtual_ip

\* C27: a round-robin selection with the non-empty healthy list H and cursor c
\* returns H[c mod |H|], |H| being the length at that call, and adds exactly
\* one to the cursor; nothing else changes the cursor (selections under the
\* other policies or with no healthy backend, set_algorithm, probes,
\* record_request, reads), so it never decreases and a policy switch does not
\* reset it.
C27_CursorAdvancesOnRoundRobinOnly ==
  [][IF SelectionStep /\ current_algorithm = ROUND_ROBIN /\ HealthySlots # {}
     THEN /\ last'.ret = Healthy[(round_robin_index % Len(Healthy)) + 1]
          /\ round_robin_index' = round_robin_index + 1
     ELSE round_robin_index' = round_robin_index]_vars

\* the cursor, advanced while two backends were healthy, is applied to a
\* healthy list of one after a policy switch and back
C27_Witness ==
  /\ last.op = "packet_in"
  /\ current_algorithm = ROUND_ROBIN
  /\ Len(servers) = 2
  /\ Healthy = <<2>>
  /\ last.ret = 2
  /\ round_robin_index = 2

\* C28: under latency-weighted, selection assigns every healthy backend the
\* weight 1/last_latency_ms when its latency is positive and 1.0 otherwise,
\* and returns a healthy backend of maximum weight.
C28_LatencyWeightsAssigned ==
  (Selected /\ current_algorithm = LATENCY_WEIGHTED /\ Healthy # <<>>)
  => LET lat(j) == servers[j].v.last_latency_ms
         w(j) == IF lat(j).n > 0 THEN [n |-> lat(j).d, d |-> lat(j).n]
                 ELSE [n |-> 1, d |-> 1]
     IN  /\ \A j \in HealthySlots :
              servers[j].v.weight.n * w(j).d = w(j).n * servers[j].v.weight.d
         /\ last.ret \in HealthySlots
         /\ \A j \in HealthySlots :
              w(j).n * w(last.ret).d <= w(last.ret).n * w(j).d

\* a backend never measured (weight 1.0) loses to one measured at 0.5 ms
\* (weight 2.0) and beats one measured at 100 ms
C28_Witness ==
  /\ Selected /\ current_algorithm = LATENCY_WEIGHTED
  /\ Len(Healthy) = 3
  /\ servers[Healthy[1]].v.last_latency_ms = Zero
  /\ servers[Healthy[1]].v.weight = One
  /\ servers[Healthy[2]].v.last_latency_ms = Rat(100, 1)
  /\ servers[Healthy[3]].v.last_latency_ms = Rat(1, 2)
  /\ servers[Healthy[3]].v.weight = Rat(2, 1)
  /\ last.ret = Healthy[3]

\* C29: under weighted-round-robin, selection assigns every healthy backend
\* the weight (max(0.1, 1 - cpu/100) + max(0.1, 1 - mem/100)) / 2 and returns
\* a healthy backend of maximum weight; for cpu and memory in 0..100 the
\* weight lies between 0.1 and 1.0.
C29_PerformanceWeightsAssigned ==
  (Selected /\ current_algorithm = WEIGHTED_ROUND_ROBIN /\ Healthy # <<>>)
  => LET \* max(0.1, 1 - x/100) as a fraction over 100 * x.d
         term(x) == IF 10 * (100 * x.d - x.n) < 100 * x.d
                    THEN [n |-> 10 * x.d, d |-> 100 * x.d]
                    ELSE [n |-> 100 * x.d - x.n, d |-> 100 * x.d]
         w(j) == LET c == term(servers[j].v.cpu_percent)
                     m == term(servers[j].v.memory_percent)
                 IN  [n |-> c.n * m.d + m.n * c.d, d |-> 2 * c.d * m.d]
         percent(x) == x.n >= 0 /\ x.n <= 100 * x.d
     IN  /\ \A j \in HealthySlots :
              /\ servers[j].v.weight.n * w(j).d = w(j).n * servers[j].v.weight.d
              /\ (percent(servers[j].v.cpu_percent)
                    /\ percent(servers[j].v.memory_percent))
                   => /\ servers[j].v.weight.d <= 10 * servers[j].v.weight.n
                      /\ servers[j].v.weight.n <= servers[j].v.weight.d
         /\ last.ret \in HealthySlots
         /\ \A j \in HealthySlots :
              w(j).n * w(last.ret).d <= w(last.ret).n * w(j).d

\* a backend at cpu 100 keeps the floor: weight (0.1 + 1.0) / 2 = 0.55, which
\* beats cpu 80 / memory 70 at 0.25
C29_Witness ==
  /\ Selected /\ current_algorithm = WEIGHTED_ROUND_ROBIN
  /\ Len(Healthy) = 2
  /\ servers[Healthy[1]].v.cpu_percent = Rat(80, 1)
  /\ servers[Healthy[1]].v.weight = Rat(1, 4)
  /\ servers[Healthy[2]].v.cpu_percent = Rat(100, 1)
  /\ servers[Healthy[2]].v.weight = Rat(11, 20)
  /\ last.ret = Healthy[2]

\* C30: when several healthy backends tie for the best score (minimal
\* active_connections under least-connections, maximal weight under
\* latency-weighted and weighted-round-robin), the backend returned is the
\* tied one that comes first in the registry.
C30_TiesGoToFirstInRegistry ==
  (Selected /\ last.ret # None
     /\ current_algorithm \in {LEAST_CONNECTIONS, LATENCY_WEIGHTED,
                                WEIGHTED_ROUND_ROBIN})
  => LET \* j scores at least as well as k
         asgood(j, k) ==
           IF current_algorithm = LEAST_CONNECTIONS
           THEN servers[j].v.active_connections
                  <= servers[k].v.active_connections
           ELSE servers[k].v.weight.n * servers[j].v.weight.d
                  <= servers[j].v.weight.n * servers[k].v.weight.d
         best == {j \in HealthySlots : \A k \in HealthySlots : asgood(j, k)}
     IN  /\ last.ret \in best
         /\ \A j \in best : last.ret <= j

\* the second and the third of three healthy backends tie above the first
C30_Witness ==
  /\ Selected /\ current_algorithm = WEIGHTED_ROUND_ROBIN
  /\ Healthy = <<1, 2, 3>>
  /\ servers[2].v.weight = servers[3].v.weight
  /\ RatLess(servers[1].v.weight, servers[2].v.weight)
  /\ last.ret = 2

\* C31 as stated: last_health_check of a backend changes only as the result
\* of a successful probe: a step that changes it is a probe of that backend
\* that ends with the backend marked healthy; a probe that ends with the
\* backend marked unhealthy (timeout, connection error, non-2xx, malformed
\* body) leaves it unchanged, and so does every other operation.
C31_LastHealthCheckOnlyOnSuccess ==
  [][\A i \in 1..Len(servers) :
       servers'[i].v.last_health_check # servers[i].v.last_health_check =>
         /\ i = monitor_i
         /\ \E r \in ProbeOutcomes, l \in ProbeLatencies, t \in TimeValues,
               m \in ProbeMetrics : CheckServerHealth(r, l, t, m)
         /\ servers'[i].v.healthy]_vars

\* C32: no operation of the core changes any backend's active_connections:
\* after any sequence of selections, probes, record_request calls, policy
\* changes and packet events every active_connections equals the value the
\* constructor gave it, 0.
C32_ActiveConnectionsNeverChange ==
  \A i \in 1..Len(servers) : servers[i].v.active_connections = 0

\* a least-connections selection for a packet, after a round-robin selection,
\* a recorded request and a failed probe
C32_Witness ==
  /\ last.op = "packet_in" /\ last.ret # None
  /\ current_algorithm = LEAST_CONNECTIONS
  /\ round_robin_index > 0
  /\ \E i \in 1..Len(servers) : servers[i].v.total_requests > 0
  /\ \E i \in 1..Len(servers) : ~servers[i].v.healthy
  /\ servers[last.ret].v.active_connections = 0

\* the sum of the request_count entries of a stats snapshot's server rows
RECURSIVE SumRequestCount(_, _)
SumRequestCount(rows, i) ==
  IF i > Len(rows) THEN 0 ELSE rows[i].request_count + SumRequestCount(rows, i + 1)

\* C33: in every reachable state, for every backend the registry's per-server
\* request counter equals that backend's total_requests, and the aggregate
\* total_requests the stats snapshot reports equals the sum of the per-server
\* counters it reports.
C33_CountersAgree ==
  /\ \A i \in 1..Len(servers) :
       /\ \E j \in 1..Len(request_counts) :
            /\ request_counts[j].k = servers[i].k
            /\ request_counts[j].v = servers[i].v.total_requests
       /\ \A j \in 1..Len(request_counts) :
            request_counts[j].k = servers[i].k =>
              request_counts[j].v = servers[i].v.total_requests
  /\ load_balancer =>
       LET stats == get_server_stats(servers, request_counts, current_algorithm)
       IN  /\ stats.total_requests = SumRequestCount(stats.servers, 1)
           /\ \A i \in 1..Len(servers) :
                stats.servers[i].request_count = servers[i].v.total_requests

\* the snapshot read after a request was recorded for the second backend:
\* its counter and its total_requests are 1, the first backend's are 0
C33_Witness ==
  /\ last.op = "get_server_stats"
  /\ Len(servers) = 2
  /\ servers[1].v.total_requests = 0
  /\ servers[2].v.total_requests = 1
  /\ last.out[1].request_count = 0
  /\ last.out[2].request_count = 1
  /\ SumCounts(request_counts, 1) = 1

\* C34: select_server changes nothing in the registry except the round-robin
\* cursor (round-robin only) and the weight of the backends in the healthy
\* snapshot (latency-weighted and weighted-round-robin only): healthy,
\* last_latency_ms, cpu_percent, memory_percent, active_connections,
\* total_requests, the request counters, the active policy and the weight of
\* unhealthy backends are unchanged by any selection, and round-robin and
\* least-connections selections change no weight at all.
C34_SelectionFrame ==
  [][SelectServer =>
       /\ round_robin_index' # round_robin_index =>
            current_algorithm = ROUND_ROBIN
       /\ request_counts' = request_counts
       /\ current_algorithm' = current_algorithm
       /\ Len(servers') = Len(servers)
       /\ \A i \in 1..Len(servers) :
            /\ servers'[i].k = servers[i].k
            /\ \A f \in {"ip", "port", "healthy", "last_latency_ms",
                         "cpu_percent", "memory_percent", "active_connections",
                         "total_requests", "last_health_check"} :
                 servers'[i].v[f] = servers[i].v[f]
            /\ servers'[i].v.weight # servers[i].v.weight =>
                 /\ servers[i].v.healthy
                 /\ current_algorithm \in {LATENCY_WEIGHTED,
                                           WEIGHTED_ROUND_ROBIN}]_vars

\* after a weighted-round-robin selection: a healthy backend with cpu 80 and
\* memory 70 carries the new weight 0.25, an unhealthy one with the same load
\* still carries its old weight 0.01
C34_Witness ==
  /\ Selected /\ current_algorithm = WEIGHTED_ROUND_ROBIN
  /\ \E i, j \in 1..Len(servers) :
       /\ servers[i].v.healthy /\ ~servers[j].v.healthy
       /\ servers[i].v.cpu_percent = Rat(80, 1)
       /\ servers[j].v.cpu_percent = Rat(80, 1)
       /\ servers[i].v.weight = Rat(1, 4)
       /\ servers[j].v.weight = Rat(1, 100)

(***************************************************************************)
(* Round-robin under a stream of packets that never ends, with the probe   *)
(* loop changing the health of the backends between selections.  The       *)
(* cursor is an unbounded Python int that only ever indexes a healthy list *)
(* of 1..RotationServers elements, so it is kept modulo CursorPeriod, a    *)
(* common multiple of these lengths: round_robin_index % len(servers) is   *)
(* the same for the kept value as for the real one.  A packet to the       *)
(* virtual address that can be handled is eventually handled (weak         *)
(* fairness); the probes are free to end either way.                       *)
(***************************************************************************)
RotationServers == 3
CursorPeriod == 6

RotationPackets == {Packet(ETH_TYPE_IP, TRUE, c, virtual_ip) : c \in ClientIps}

\* EventOFPPacketIn, the cursor kept modulo CursorPeriod
PacketInForever(datapath, in_port, pkt) ==
  /\ LET r == packet_in_handler(load_balancer, servers, current_algorithm,
                                round_robin_index, datapath, in_port,
                                OFP_NO_BUFFER, pkt)
     IN  /\ servers' = r.servers
         /\ round_robin_index' = r.rr % CursorPeriod
         /\ last' = EventOp("packet_in", datapath, in_port, pkt, r.ret, r.out)
  /\ UNCHANGED <<call, flow_table, probe, config, load_balancer,
                 request_counts, current_algorithm, monitor_i, selections>>

RotationPacketIn ==
  \E d \in Datapaths, p \in InPorts, pkt \in RotationPackets :
    PacketInForever(d, p, pkt)

InitRotation ==
  Constructed({[i \in 1..n |-> BackendAt(i)] : n \in 1..RotationServers})

NextRotation ==
  \/ RotationPacketIn
  \/ \E o \in ConcurrentOutcomes, l \in ProbeLatencies, t \in TimeValues,
        m \in ProbeMetrics : CheckServerHealth(o, l, t, m)
  \/ MonitorSleep

SpecRotation ==
  InitRotation /\ [][NextRotation]_vars /\ WF_vars(RotationPacketIn)

\* the health flags of the registry, in registry order
HealthPattern == [i \in 1..Len(servers) |-> servers[i].v.healthy]
\* the last event was a packet-in for which select_server returned slot i
SelectedForPacket(i) == last.op = "packet_in" /\ last.ret = i

\* C35 as stated: under round-robin with packets to the virtual address
\* arriving forever, a backend that stays healthy forever is eventually
\* selected, whatever health changes the other backends undergo between
\* selections.
C35_HealthyBackendEventuallySelected ==
  \A i \in 1..RotationServers :
    [](i <= Len(servers) /\ servers[i].v.healthy) => <>SelectedForPacket(i)

\* C35, amended: under round-robin with packets to the virtual address
\* arriving forever, a backend that stays healthy forever is eventually
\* selected if the health of the other backends stops changing from some
\* point on.
C35_SelectedOnceHealthSettles ==
  \A i \in 1..RotationServers :
    \A h \in UNION {[1..n -> BOOLEAN] : n \in 1..RotationServers} :
      ([](i <= Len(servers) /\ servers[i].v.healthy) /\ <>[](HealthPattern = h))
        => <>SelectedForPacket(i)

\* the second of three backends selected while the first, probed healthy
\* earlier, is marked unhealthy and the third is healthy
C35_Witness ==
  /\ Len(servers) = 3
  /\ SelectedForPacket(2)
  /\ ~servers[1].v.healthy /\ servers[1].v.last_health_check = 1
  /\ servers[3].v.healthy
  /\ round_robin_index = 5

(***************************************************************************)
(* The controller with a pool on one host and a pool on two: the           *)
(* development default of _parse_servers (two ports of 127.0.0.1) and two  *)
(* backends with addresses of their own                                    *)
(***************************************************************************)
FlowConfigs ==
  {<<BackendAt(1), BackendAt(2)>>,
   <<<<"10.0.0.1", 5001>>, <<"10.0.0.2", 5001>>>>}

InitFlows == Constructed(FlowConfigs)

SpecFlows == InitFlows /\ [][NextPacket]_vars

\* the FlowMods among the messages of one event
FlowModsOf(out) == SelectSeq(out, LAMBDA msg : msg.type = "FlowMod")
\* two handled events are packet-ins of one flow: same switch, same ingress
\* port, same client address, both to the virtual address
SameFlow(a, b) ==
  /\ a.op = "packet_in" /\ b.op = "packet_in"
  /\ a.pkt.ethertype = ETH_TYPE_IP /\ a.pkt.ipv4 /\ a.pkt.dst = virtual_ip
  /\ b.pkt = a.pkt
  /\ b.datapath = a.datapath
  /\ b.in_port = a.in_port

\* C36 as stated: for a given switch, ingress port and client address, all
\* forward rules the controller sends rewrite the destination to the same
\* backend: a second packet-in of the same flow, handled right after the
\* first, does not make the controller send a forward rule with the same
\* match and another backend.
C36_OneBackendPerFlow ==
  [][(SameFlow(last, last') /\ last.ret # None /\ last'.ret # None) =>
       /\ FlowModsOf(last'.out)[1].match = FlowModsOf(last.out)[1].match
       /\ FlowModsOf(last'.out)[1].actions = FlowModsOf(last.out)[1].actions]_vars

\* C37 as stated: the forward and reverse rules installed for a selected
\* backend identify that backend: for two distinct backends of the registry
\* (two backends on one host with different ports included) and the same
\* client and ingress port, the rules sent when one is selected differ from
\* the rules sent when the other is selected.
C37_RulesIdentifyBackend ==
  [][(SameFlow(last, last') /\ last.ret # None /\ last'.ret # None
        /\ last'.ret # last.ret) =>
       FlowModsOf(last'.out) # FlowModsOf(last.out)]_vars

OtherPacketIn ==
  /\ last'.op = "packet_in"
  /\ ~(last'.pkt.ethertype = ETH_TYPE_IP /\ last'.pkt.ipv4
         /\ last'.pkt.dst = virtual_ip)
  /\ PacketIn(last'.datapath, last'.in_port, last'.pkt)

\* C39 as stated: a packet-in that is not an IPv4 packet addressed to the
\* virtual address (non-IP, or IPv4 with another destination) never invokes
\* selection and never installs a rule: the round-robin cursor, weights and
\* counters are unchanged and the only message emitted is one flood PacketOut.
C39_OtherPacketsOnlyFlooded ==
  [][OtherPacketIn =>
       /\ last'.ret = None
       /\ round_robin_index' = round_robin_index
       /\ servers' = servers
       /\ request_counts' = request_counts
       /\ Len(last'.out) = 1
       /\ last'.out[1].type = "PacketOut"
       /\ last'.out[1].actions = <<[type |-> "OUTPUT", port |-> OFPP_FLOOD,
                                    field |-> "", value |-> ""]>>
       /\ last'.out[1].data = last'.pkt]_vars

\* C39, amended: a packet-in that is not an IPv4 packet addressed to the
\* virtual address never invokes selection and never installs a rule: the
\* round-robin cursor, weights and counters are unchanged; with a backend pool
\* configured and a packet that is not an LLDP frame the only message emitted
\* is one flood PacketOut, and for an LLDP frame or with no pool configured no
\* message is emitted.
C39_OtherPacketsNeverBalanced ==
  [][OtherPacketIn =>
       /\ last'.ret = None
       /\ round_robin_index' = round_robin_index
       /\ servers' = servers
       /\ request_counts' = request_counts
       /\ \A k \in 1..Len(last'.out) : last'.out[k].type # "FlowMod"
       /\ IF load_balancer /\ last'.pkt.ethertype # ETH_TYPE_LLDP
          THEN /\ Len(last'.out) = 1
               /\ last'.out[1].type = "PacketOut"
               /\ last'.out[1].actions =
                    <<[type |-> "OUTPUT", port |-> OFPP_FLOOD,
                       field |-> "", value |-> ""]>>
               /\ last'.out[1].data = last'.pkt
          ELSE last'.out = <<>>]_vars

\* an IPv4 packet to another address handled after a round-robin selection,
\* with healthy backends to choose from: one PacketOut, cursor still 1
C39_Witness ==
  /\ last.op = "packet_in"
  /\ last.pkt.ethertype = ETH_TYPE_IP /\ last.pkt.ipv4
  /\ last.pkt.dst = "10.0.0.7"
  /\ load_balancer /\ Len(Healthy) = 2
  /\ current_algorithm = ROUND_ROBIN
  /\ round_robin_index = 1
  /\ last.ret = None
  /\ Len(last.out) = 1
  /\ last.out[1].type = "PacketOut"

(***************************************************************************)
(* Backends failing and recovering: probes that end in every kind of       *)
(* response, with selections for packets, policy changes and recorded      *)
(* requests between them                                                   *)
(***************************************************************************)
RecoveryProbe ==
  \E r \in Responses, l \in ProbeLatencies, t \in TimeValues,
     m \in ProbeMetrics : CheckServerHealth(r, l, t, m)

NextRecovery ==
  \/ RecoveryProbe
  \/ MonitorSleep
  \/ \E d \in Datapaths, p \in InPorts, pkt \in CursorPackets :
       PacketIn(d, p, pkt)
  \/ \E a \in LoadBalancingAlgorithm : SetAlgorithm(a)
  \/ \E sid \in RequestIds, l \in RecordLatencies : RecordRequest(sid, l)

SpecRecovery == Init /\ [][NextRecovery]_vars

\* what a probe that ended in one of the responses `successes` and the
\* operations between probes do to the healthy flag, and what a selection
\* makes of it: the backends with the flag set, in registry order, are the
\* candidates
RecoveryHolds(successes) ==
  /\ \A r \in Responses, l \in ProbeLatencies, t \in TimeValues,
        m \in ProbeMetrics :
       (CheckServerHealth(r, l, t, m) /\ r \in successes
          /\ ~servers[monitor_i].v.healthy) =>
         servers'[monitor_i].v.healthy
  /\ ~RecoveryProbe =>
       \A i \in 1..Len(servers) : servers'[i].v.healthy = servers[i].v.healthy
  /\ (SelectionStep /\ Healthy # <<>>) =>
       /\ last'.ret \in HealthySlots
       /\ current_algorithm = ROUND_ROBIN =>
            last'.ret = Healthy[(round_robin_index % Len(Healthy)) + 1]

\* C40 as stated: unhealthy is not a permanent state: a backend marked
\* unhealthy whose later probe succeeds (a 2xx answer with a JSON body) is
\* marked healthy by that probe and is again a candidate of every subsequent
\* selection; between probes the healthy flag of a backend does not change.
C40_UnhealthyNotPermanent ==
  [][RecoveryHolds({r \in Responses : Is2xx(r) /\ r.json})]_vars

\* recovery by a probe answered with status 200 and a JSON body
RecoveryOn200 ==
  [][RecoveryHolds({Response("", 200, TRUE)})]_vars

====
